---- MODULE Spec2Model ----
(***************************************************************************)
(* A model of AI System Utility: the action registry (core/actions.py),    *)
(* the request router and executor (core/ai_interpreter.py), the session   *)
(* surfaces (gui.py, tray_agent.py, main.py) and the privacy backup        *)
(* (core/privacy_tools.py).                                                *)
(***************************************************************************)
EXTENDS Integers, Sequences, FiniteSets, TLC

VARIABLES
    _ACTIONS,      \* actions._ACTIONS: the registry, in insertion order
    phase,        \* import of actions.py: "builtins", "plugins" or "ready"
    pending,      \* what the running registration function still has to do
    modules,      \* the modules of the plugins package, as iter_modules yields
    midx,         \* load_plugins: index of the next module
    warnings,     \* the messages of logger.warning
    registered,   \* the ids register_action was called with
    api,          \* the last call of the registry API and what it returned
    rpc,          \* router: "idle" or "resolved"
    env,          \* router: the environment the last resolve saw
    request,      \* router: the text passed to choose_actions_for_request
    requestNone,  \* router: the argument was None (request is then "")
    reply,        \* router: what the remote call produced
    strategies,   \* router: the calls the last resolve made, in order
    plan,         \* the list of Action returned by the last resolve
    surface,      \* the surface handler that ran last
    asked,        \* confirmations asked in the last interaction
    blanket,      \* a whole-interaction confirmation was accepted
    invoked,      \* ids whose handler was invoked, in order
    outcomes,     \* what each step's handler did: "text", "none", "raise"
    log,          \* log_action events of the last interaction
    results,      \* interpret_command's results: the lines of its summary
    activity,     \* the lines the surface showed: activity log, message, print
    cliPc,        \* the CLI process: "prompt", "exited" or "crashed"
    registry,     \* the registry values of the privacy settings
    pristine,     \* the registry as it was when the process started
    _BACKUP,       \* privacy_tools._BACKUP
    tpc,          \* per thread: position inside _apply_settings
    tidx,         \* per thread: index of the setting being applied
    toriginal,    \* per thread: the local 'original' of _backup_setting
    applies,      \* how many profile applications were started
    avail,        \* the tool functions that hasattr finds in the tool modules
    behaviour,    \* what the tools did in the last interaction
    trace,        \* the last interaction's log events, handler and tool calls
    lastOp,       \* privacy, sequential: the last call and the string it returned
    stores,       \* privacy: per key, how many times _BACKUP[key] was assigned
    firstRead,    \* privacy: per key, what _read_reg_value gave when the first
                  \* application that touched the key began
    writesOk,     \* privacy: no registry write has failed so far
    clock,        \* health monitor: time.time(), in seconds
    checks,       \* health monitor: turns of "while True" so far
    reading,      \* health monitor: what get_system_info gave in the last turn
    last_cpu_notify,   \* health monitor: the locals of monitor()
    last_ram_notify,
    last_disk_notify,
    issued        \* health monitor: the calls of _show_message, in order

vars == <<_ACTIONS, phase, pending, modules, midx, warnings, registered, api, rpc, env, request, requestNone, reply, strategies, plan, surface, asked, blanket,
          invoked, outcomes, log, results, activity, cliPc, registry, pristine, _BACKUP, tpc, tidx,
          toriginal, applies, avail, behaviour, trace, lastOp, stores, firstRead,
          writesOk, clock, checks, reading, last_cpu_notify, last_ram_notify,
          last_disk_notify, issued>>

catalogVars == <<phase, pending, modules, midx, warnings, registered, api>>
routerVars == <<rpc, env, request, requestNone, reply, strategies, plan>>
surfaceVars ==
    <<surface, asked, blanket, invoked, outcomes, log, results, activity, cliPc>>
privacyVars == <<registry, pristine, _BACKUP, tpc, tidx, toriginal, applies>>
executorVars == <<avail, behaviour, trace>>
profileVars == <<lastOp, stores, firstRead, writesOk>>
monitorVars ==
    <<clock, checks, reading, last_cpu_notify, last_ram_notify, last_disk_notify,
      issued>>

----------------------------------------------------------------------------
(* Bounds of the model.                                                     *)

\* a request is at most this many phrases of the vocabulary
MaxPhrases == 2
\* a remote reply lists at most this many entries
MaxReplyLen == 3
\* a process applies a privacy profile at most this many times
MaxApplies == 2
\* the plugins package holds at most this many modules
MaxModules == 2

----------------------------------------------------------------------------
(* Python strings: str.lower, str.strip and the 'in' substring test.        *)

UpperAlpha == "ABCDEFGHIJKLMNOPQRSTUVWXYZ"
LowerAlpha == "abcdefghijklmnopqrstuvwxyz"

CharAt(s, i) == SubSeq(s, i, i)

\* the lowercase letter of each uppercase letter
LowerOf ==
    [c \in {CharAt(UpperAlpha, i) : i \in 1..26} |->
        CharAt(LowerAlpha, CHOOSE i \in 1..26 : CharAt(UpperAlpha, i) = c)]

LowerChar(c) == IF c \in DOMAIN LowerOf THEN LowerOf[c] ELSE c

\* str.lower(): each character lowered, the two halves one after the other
RECURSIVE lower(_)
lower(s) ==
    IF Len(s) <= 1 THEN LowerChar(s)
    ELSE LET half == Len(s) \div 2
         IN  lower(SubSeq(s, 1, half)) \o lower(SubSeq(s, half + 1, Len(s)))

IsSpace(c) == c \in {" ", "\t", "\n", "\r"}

\* str.strip(): drop leading and trailing whitespace
strip(s) ==
    LET keep == {i \in 1..Len(s) : ~IsSpace(CharAt(s, i))}
    IN  IF keep = {} THEN ""
        ELSE LET lo == CHOOSE i \in keep : \A j \in keep : i <= j
                 hi == CHOOSE i \in keep : \A j \in keep : i >= j
             IN  SubSeq(s, lo, hi)

\* k in text
Contains(text, k) ==
    \E i \in 1..(Len(text) - Len(k) + 1) : SubSeq(text, i, i + Len(k) - 1) = k

\* any(k in text for k in ks)
ContainsAny(text, ks) == \E k \in ks : Contains(text, k)

----------------------------------------------------------------------------
(* The registry after startup: _register_builtin_actions, then             *)
(* load_plugins.                                                            *)

\* Action(id, name, description, group, dangerous, func); func is the name
\* of the handler
Act(id, name, description, group, dangerous, func) ==
    [id |-> id, name |-> name, description |-> description,
     group |-> group, dangerous |-> dangerous, func |-> func]

BuiltinActions == <<
    Act("cleanup_temp", "Clean Temp Files",
        "Deletes temporary files from standard Windows temp locations.",
        "cleanup", FALSE, "_cleanup_temp"),
    Act("cleanup_prefetch", "Clean Prefetch Folder",
        "Cleans the Windows Prefetch folder to clear stale launch data.",
        "cleanup", FALSE, "_cleanup_prefetch"),
    Act("cleanup_windows_update_cache", "Clean Windows Update Cache",
        "Deletes and resets Windows Update cache to fix update issues.",
        "cleanup", TRUE, "_cleanup_windows_update_cache"),
    Act("cleanup_recommended", "Recommended Cleanup",
        "Runs a recommended set of cleanup operations: temp, prefetch, and update cache.",
        "cleanup", TRUE, "_cleanup_recommended"),
    Act("health_sfc", "System File Checker (SFC)",
        "Runs 'sfc /scannow' to check and repair system files.",
        "health", TRUE, "_run_sfc"),
    Act("health_dism", "DISM Health Scan",
        "Runs DISM to check and repair the Windows component store.",
        "health", TRUE, "_run_dism"),
    Act("health_chkdsk", "CHKDSK (Next Boot)",
        "Schedules CHKDSK on the system drive for the next reboot.",
        "health", TRUE, "_run_chkdsk"),
    Act("health_full", "Full Health Check",
        "Runs SFC and DISM to verify system health. You may still choose to schedule CHKDSK.",
        "health", TRUE, "_health_full"),
    Act("network_reset", "Reset Network Stack",
        "Resets Winsock, IP stack, and flushes DNS to fix common network issues.",
        "network", TRUE, "_network_reset"),
    Act("tools_task_manager", "Open Task Manager",
        "Opens Windows Task Manager.", "tools", FALSE, "_open_task_manager"),
    Act("tools_device_manager", "Open Device Manager",
        "Opens Windows Device Manager.", "tools", FALSE, "_open_device_manager"),
    Act("tools_services", "Open Services",
        "Opens the Windows Services management console.", "tools", FALSE, "_open_services"),
    Act("tools_system_restore", "Open System Restore",
        "Opens the System Restore configuration UI.", "tools", FALSE, "_open_system_restore"),
    Act("privacy_recommended", "Recommended Privacy Profile",
        "Applies a balanced set of privacy tweaks recommended for most users.",
        "privacy", TRUE, "_privacy_recommended"),
    Act("privacy_strict", "Strict Privacy Profile",
        "Applies a strict set of privacy tweaks, potentially disabling some Windows features.",
        "privacy", TRUE, "_privacy_strict"),
    Act("privacy_restore_defaults", "Restore Privacy Defaults",
        "Restores Windows privacy-related settings to their default values.",
        "privacy", TRUE, "_privacy_restore_defaults") >>

\* aid in _ACTIONS
HasId(A, aid) == \E i \in 1..Len(A) : A[i].id = aid

\* get_action_by_id / _ACTIONS.get(aid); only used where HasId holds
get_action_by_id(A, aid) == A[CHOOSE i \in 1..Len(A) : A[i].id = aid]

Ids(seq) == [i \in 1..Len(seq) |-> seq[i].id]

----------------------------------------------------------------------------
(* Python's order on str: by code point, a proper prefix first.            *)

\* the characters of code 32 to 95, and of code 97 to 126
AsciiTo95 == " !\"#$%&'()*+,-./0123456789:;<=>?@ABCDEFGHIJKLMNOPQRSTUVWXYZ[\\]^_"
AsciiFrom97 == "abcdefghijklmnopqrstuvwxyz{|}~"

\* the code point of each character
CodePoint ==
    [c \in {CharAt(AsciiTo95, i) : i \in 1..Len(AsciiTo95)}
            \cup {CharAt(AsciiFrom97, i) : i \in 1..Len(AsciiFrom97)} |->
        IF \E i \in 1..Len(AsciiTo95) : CharAt(AsciiTo95, i) = c
        THEN 31 + (CHOOSE i \in 1..Len(AsciiTo95) : CharAt(AsciiTo95, i) = c)
        ELSE 96 + (CHOOSE i \in 1..Len(AsciiFrom97) : CharAt(AsciiFrom97, i) = c)]

\* ord(c)
ord(c) == CodePoint[c]

RECURSIVE StrLessFrom(_, _, _)
StrLessFrom(a, b, i) ==
    IF i > Len(b) THEN FALSE
    ELSE IF i > Len(a) THEN TRUE
    ELSE IF ord(CharAt(a, i)) < ord(CharAt(b, i)) THEN TRUE
    ELSE IF ord(CharAt(a, i)) > ord(CharAt(b, i)) THEN FALSE
    ELSE StrLessFrom(a, b, i + 1)

\* a < b
StrLess(a, b) == StrLessFrom(a, b, 1)

\* k1 < k2 for two sort keys, tuples of str of one length
RECURSIVE KeyLess(_, _)
KeyLess(k1, k2) ==
    IF k1 = <<>> THEN FALSE
    ELSE IF Head(k1) = Head(k2) THEN KeyLess(Tail(k1), Tail(k2))
    ELSE StrLess(Head(k1), Head(k2))

\* list.sort / sorted on [key, val] pairs: stable, the key computed once.
\* An entry comes after the entries with a smaller key and the earlier
\* entries with an equal key.
SortDecorated(dec) ==
    LET d == dec \o <<>>
        n == Len(d)
        Before(j, i) == \/ KeyLess(d[j].key, d[i].key)
                        \/ j < i /\ ~KeyLess(d[i].key, d[j].key)
        place == [i \in 1..n |-> 1 + Cardinality({j \in 1..n : Before(j, i)})] \o <<>>
    IN  [p \in 1..n |-> d[CHOOSE i \in 1..n : place[i] = p]]

Values(dec) == [i \in 1..Len(dec) |-> dec[i].val]

----------------------------------------------------------------------------
(* core/actions.py: the registration and lookup API.  _ACTIONS is a dict:  *)
(* a new key goes to the end, an existing key keeps its place.              *)

\* register_action as a bug would have it: an existing entry is kept
register_action_setdefault(A, a) ==
    IF HasId(A, a.id) THEN A ELSE Append(A, a)

\* register_action as a bug would have it: id and name swapped in the Action
register_action_swapped(A, a) ==
    LET b == [a EXCEPT !.id = a.name, !.name = a.id]
    IN  IF HasId(A, b.id)
        THEN [i \in 1..Len(A) |-> IF A[i].id = b.id THEN b ELSE A[i]]
        ELSE Append(A, b)

\* _ACTIONS[action_id] = Action(id=action_id, ...); a holds the arguments
register_action(A, a) ==
    IF HasId(A, a.id)
    THEN [i \in 1..Len(A) |-> IF A[i].id = a.id THEN a ELSE A[i]]
    ELSE Append(A, a)

\* get_actions_by_group
get_actions_by_group(A, group) ==
    LET InGroup(a) == a.group = group
        actions == SelectSeq(A, InGroup)
    IN  Values(SortDecorated(
            [i \in 1..Len(actions) |->
                [key |-> <<lower(actions[i].name)>>, val |-> actions[i]]]))

\* list_actions as a bug would have it: the names compared as they are
list_actions_case_sensitive(A) ==
    Values(SortDecorated(
        [i \in 1..Len(A) |-> [key |-> <<A[i].group, A[i].name>>, val |-> A[i]]]))

\* list_actions
list_actions(A) ==
    Values(SortDecorated(
        [i \in 1..Len(A) |->
            [key |-> <<A[i].group, lower(A[i].name)>>, val |-> A[i]]]))

----------------------------------------------------------------------------
(* The plugins package.  A module is [name, importOk, hasRegister, body]:  *)
(* its import succeeds or raises, it has a callable register or not, and   *)
(* body is what register(registry=...) does: calls of register_action, and *)
(* a raise where it fails.                                                  *)

Register(a) == [op |-> "register", action |-> a]
Raise == [op |-> "raise", action |-> Act("", "", "", "", FALSE, "")]

Module(name, importOk, hasRegister, body) ==
    [name |-> name, importOk |-> importOk, hasRegister |-> hasRegister,
     body |-> body]

\* plugins/example_cleanup.py: register(actions) has no parameter 'registry',
\* so the call register_fn(registry=...) raises TypeError
example_cleanup == Module("example_cleanup", TRUE, TRUE, <<Raise>>)

\* the modules a plugins package may hold, in the order of their names
AllModules ==
    <<Module("_private", TRUE, TRUE,
             <<Register(Act("private_action", "Private", "Never loaded.",
                            "tools", FALSE, "private"))>>),
      Module("broken_import", FALSE, FALSE, <<>>),
      example_cleanup,
      Module("half_registered", TRUE, TRUE,
             <<Register(Act("half_a", "half done", "Registered before the failure.",
                            "extras", FALSE, "half_a")),
               Raise>>),
      Module("net_tools", TRUE, TRUE,
             <<Register(Act("net_diag", "diagnose network", "Runs network diagnostics.",
                            "network", FALSE, "net_diag")),
               Register(Act("net_trace", "Trace Route", "Traces the route to a host.",
                            "network", FALSE, "net_trace"))>>),
      Module("no_register", TRUE, FALSE, <<>>),
      Module("zz_overrides", TRUE, TRUE,
             <<Register(Act("cleanup_temp", "temp sweep", "Replaces the built-in.",
                            "cleanup", TRUE, "sweep")),
               Register(Act("net_diag", "Network Doctor", "Replaces net_tools' action.",
                            "extras", TRUE, "doctor"))>>)>>

\* the modules at the indexes S, in order
RECURSIVE Pick(_, _)
Pick(S, i) ==
    IF i > Len(AllModules) THEN <<>>
    ELSE (IF i \in S THEN <<AllModules[i]>> ELSE <<>>) \o Pick(S, i + 1)

\* what pkgutil.iter_modules can yield: modules sorted by name
Directories ==
    {Pick(S, 1) : S \in {T \in SUBSET (1..Len(AllModules)) :
                            Cardinality(T) <= MaxModules}}

\* the plugins package of the repository
RepositoryPlugins == <<example_cleanup>>

PluginsPackage == "ai_system_utility.plugins"

ImportFailed(m) ==
    "Failed to import plugin module '" \o PluginsPackage \o "." \o m.name \o "'"

RegisterFailed(m) ==
    "Plugin '" \o PluginsPackage \o "." \o m.name \o "' register() failed"

Overwriting(aid) == "Overwriting existing action with id '" \o aid \o "'"

\* the record of a call of the registry API
Call(op, id, action, found, result) ==
    [op |-> op, id |-> id, action |-> action, found |-> found, result |-> result]

NoAction == Act("", "", "", "", FALSE, "")

NoCall == Call("none", "", NoAction, FALSE, <<>>)

\* the registrations of _register_builtin_actions, in order
BuiltinBody == [i \in 1..Len(BuiltinActions) |-> Register(BuiltinActions[i])]

----------------------------------------------------------------------------
(* core/ai_interpreter.py: the keyword strategy.                            *)

\* the cleanup group as a bug would have it: the narrow temp rule tried first
FallbackCleanupTempFirst(text) ==
    IF Contains(text, "temp") \/ Contains(text, "temporary")
    THEN <<"cleanup_temp">>
    ELSE IF ContainsAny(text, {"cleanup", "clean up", "clean my pc",
                               "cache", "junk", "space"})
    THEN <<"cleanup_recommended">>
    ELSE <<>>

\* the cleanup group as a bug would have it: independent ifs
FallbackCleanupIndependent(text) ==
    (IF ContainsAny(text, {"cleanup", "clean up", "clean my pc", "temp",
                           "cache", "junk", "space"})
     THEN <<"cleanup_recommended">> ELSE <<>>)
    \o (IF Contains(text, "prefetch") THEN <<"cleanup_prefetch">> ELSE <<>>)
    \o (IF Contains(text, "windows update") /\ Contains(text, "cache")
        THEN <<"cleanup_windows_update_cache">> ELSE <<>>)
    \o (IF Contains(text, "temp") \/ Contains(text, "temporary")
        THEN <<"cleanup_temp">> ELSE <<>>)

\* the cleanup group: one if/elif chain
FallbackCleanup(text) ==
    IF ContainsAny(text, {"cleanup", "clean up", "clean my pc", "temp",
                          "cache", "junk", "space"})
    THEN <<"cleanup_recommended">>
    ELSE IF Contains(text, "prefetch")
    THEN <<"cleanup_prefetch">>
    ELSE IF Contains(text, "windows update") /\ Contains(text, "cache")
    THEN <<"cleanup_windows_update_cache">>
    ELSE IF Contains(text, "temp") \/ Contains(text, "temporary")
    THEN <<"cleanup_temp">>
    ELSE <<>>

\* the health group: four independent ifs
FallbackHealth(text) ==
    (IF Contains(text, "sfc") \/ Contains(text, "system file checker")
     THEN <<"health_sfc">> ELSE <<>>)
    \o (IF Contains(text, "dism") \/ Contains(text, "component store")
        THEN <<"health_dism">> ELSE <<>>)
    \o (IF Contains(text, "chkdsk") \/ Contains(text, "disk check")
        THEN <<"health_chkdsk">> ELSE <<>>)
    \o (IF ContainsAny(text, {"health", "corrupt", "integrity", "fix system files"})
        THEN <<"health_full">> ELSE <<>>)

\* the network group: one if
FallbackNetwork(text) ==
    IF ContainsAny(text, {"no internet", "network", "wifi", "ethernet", "dns",
                          "winsock", "reset network"})
    THEN <<"network_reset">> ELSE <<>>

\* the tools group: four independent ifs
FallbackTools(text) ==
    (IF Contains(text, "task manager") THEN <<"tools_task_manager">> ELSE <<>>)
    \o (IF Contains(text, "device manager") THEN <<"tools_device_manager">> ELSE <<>>)
    \o (IF Contains(text, "services") THEN <<"tools_services">> ELSE <<>>)
    \o (IF Contains(text, "system restore") \/ Contains(text, "restore point")
        THEN <<"tools_system_restore">> ELSE <<>>)

\* the privacy group: one if/elif chain
FallbackPrivacy(text) ==
    IF Contains(text, "privacy") /\ Contains(text, "strict")
    THEN <<"privacy_strict">>
    ELSE IF Contains(text, "privacy") /\ Contains(text, "default")
    THEN <<"privacy_restore_defaults">>
    ELSE IF Contains(text, "privacy")
    THEN <<"privacy_recommended">>
    ELSE IF Contains(text, "telemetry") \/ Contains(text, "tracking")
    THEN <<"privacy_recommended">>
    ELSE <<>>

\* "if not selected": the generic mappings
FallbackGeneric(text) ==
    IF Contains(text, "clean") THEN <<"cleanup_recommended">>
    ELSE IF Contains(text, "fix") \/ Contains(text, "repair") THEN <<"health_full">>
    ELSE <<>>

\* de-duplicate preserving order, keep only ids of the registry
RECURSIVE DedupValid(_, _, _)
DedupValid(A, selected, seen) ==
    IF selected = <<>> THEN <<>>
    ELSE LET aid == Head(selected)
         IN  IF HasId(A, aid) /\ aid \notin seen
             THEN <<aid>> \o DedupValid(A, Tail(selected), seen \cup {aid})
             ELSE DedupValid(A, Tail(selected), seen)

\* the rule groups as a bug would have them: the network rule chained to the
\* cleanup and health rules by elif
SelectedNetworkElif(text) ==
    LET before == FallbackCleanup(text) \o FallbackHealth(text)
    IN  before \o (IF before = <<>> THEN FallbackNetwork(text) ELSE <<>>)
            \o FallbackTools(text) \o FallbackPrivacy(text)

\* the rule groups as a bug would have them: the tools rules before the
\* health rules
SelectedToolsFirst(text) ==
    FallbackCleanup(text) \o FallbackTools(text) \o FallbackHealth(text)
        \o FallbackNetwork(text) \o FallbackPrivacy(text)

\* the rule groups in order: cleanup, health, network, tools, privacy
Selected(text) ==
    FallbackCleanup(text) \o FallbackHealth(text) \o FallbackNetwork(text)
        \o FallbackTools(text) \o FallbackPrivacy(text)

\* the keyword strategy as a bug would have it: the generic mappings are
\* tried whatever the rule groups selected
FallbackAlwaysGeneric(A, req) ==
    LET text == lower(req)
    IN  DedupValid(A, Selected(text) \o FallbackGeneric(text), {})

_fallback_choose_action_ids(A, req) ==
    LET text == lower(req)
        selected == Selected(text)
    IN  DedupValid(A, IF selected = <<>> THEN FallbackGeneric(text) ELSE selected, {})

----------------------------------------------------------------------------
(* core/ai_interpreter.py: the remote strategy.  The environment is        *)
(* [genai, GEMINI_API_KEY, GOOGLE_API_KEY] (an unset variable is "");      *)
(* a reply is what generate_content and json.loads produce:                *)
(* [called, raises, isJson, isList, items]: the call raised (a network      *)
(* failure), or its text is JSON or not, an array or not; an item of the   *)
(* array is [isStr, val].                                                   *)

_is_gemini_configured(e) ==
    IF ~e.genai THEN FALSE
    ELSE LET api_key == IF e.GEMINI_API_KEY # "" THEN e.GEMINI_API_KEY
                        ELSE e.GOOGLE_API_KEY
         IN  api_key # ""

\* valid_ids = [aid for aid in data if isinstance(aid, str) and aid in ACTIONS]
ValidIds(A, items) ==
    LET ok(it) == it.isStr /\ HasId(A, it.val)
        kept == SelectSeq(items, ok)
    IN  [i \in 1..Len(kept) |-> kept[i].val]

_gemini_choose_action_ids(A, e, rp) ==
    IF ~_is_gemini_configured(e) THEN <<>>
    ELSE IF rp.raises THEN <<>>
    ELSE IF ~rp.isJson THEN <<>>
    ELSE IF rp.isList THEN ValidIds(A, rp.items)
    ELSE <<>>

\* for aid in action_ids: action = ACTIONS.get(aid); if action: append
RECURSIVE ToActions(_, _)
ToActions(A, action_ids) ==
    IF action_ids = <<>> THEN <<>>
    ELSE (IF HasId(A, Head(action_ids))
          THEN <<get_action_by_id(A, Head(action_ids))>> ELSE <<>>)
         \o ToActions(A, Tail(action_ids))

\* the argument of choose_actions_for_request: None or a str
None == [none |-> TRUE, str |-> ""]
Str(s) == [none |-> FALSE, str |-> s]

\* request or ""
OrEmpty(arg) == IF arg.none THEN "" ELSE arg.str

\* the merge as a bug would have it: the remote ids alone
ChosenIdsRemoteOnly(A, r, remote) == remote

\* the merge as a bug would have it: both strategies, concatenated
ChosenIdsBoth(A, r, remote) == remote \o _fallback_choose_action_ids(A, r)

\* action_ids = remote; if not action_ids: action_ids = fallback(request)
ChosenIds(A, r, remote) ==
    IF remote = <<>> THEN _fallback_choose_action_ids(A, r) ELSE remote

\* the strategies a resolve of the non-empty text r goes through
CallsFor(A, e, rp) ==
    <<"_gemini_choose_action_ids">>
    \o (IF _is_gemini_configured(e) THEN <<"generate_content">> ELSE <<>>)
    \o (IF _gemini_choose_action_ids(A, e, rp) = <<>>
        THEN <<"_fallback_choose_action_ids">> ELSE <<>>)

\* choose_actions_for_request as a bug would have it: no early return
ResolveCallNoGuard(A, e, arg, rp) ==
    LET r == strip(OrEmpty(arg))
        remote == _gemini_choose_action_ids(A, e, rp)
    IN  [actions |-> ToActions(A, ChosenIds(A, r, remote)),
         calls |-> CallsFor(A, e, rp)]

\* choose_actions_for_request: the actions it returns and the calls it makes
ResolveCall(A, e, arg, rp) ==
    LET r == strip(OrEmpty(arg))
    IN  IF r = "" THEN [actions |-> <<>>, calls |-> <<>>]
        ELSE LET remote == _gemini_choose_action_ids(A, e, rp)
             IN  [actions |-> ToActions(A, ChosenIds(A, r, remote)),
                  calls |-> CallsFor(A, e, rp)]

choose_actions_for_request(A, e, arg, rp) == ResolveCall(A, e, arg, rp).actions

----------------------------------------------------------------------------
(* The inputs the model draws from.                                         *)

Phrases ==
    {"clean up", "my temp files and cache", "junk", "windows update", "cache",
     "temp", "my WiFi and DNS are broken", "network", "fix", "privacy",
     "strict", "restore", "privacy defaults", "lock down my privacy, maximum",
     "sfc", "services", "telemetry", "hello", "clean", "repair",
     "fix my network"}

RECURSIVE Join(_)
Join(ps) ==
    IF Len(ps) = 1 THEN ps[1] ELSE ps[1] \o " " \o Join(Tail(ps))

\* two requests that name health checks and tools against the order of the
\* rules, the same phrases in both orders
OrderRequests ==
    {"restore point, device manager, task manager chkdsk and dism",
     "chkdsk and dism restore point, device manager, task manager"}

\* the requests: 1..MaxPhrases phrases separated by blanks
Requests ==
    UNION {{Join(ps) : ps \in [1..n -> Phrases]} : n \in 1..MaxPhrases}
        \cup OrderRequests

Envs ==
    {[genai |-> FALSE, GEMINI_API_KEY |-> "k", GOOGLE_API_KEY |-> ""],
     [genai |-> TRUE, GEMINI_API_KEY |-> "", GOOGLE_API_KEY |-> ""],
     [genai |-> TRUE, GEMINI_API_KEY |-> "k", GOOGLE_API_KEY |-> ""],
     [genai |-> TRUE, GEMINI_API_KEY |-> "", GOOGLE_API_KEY |-> "k"]}

ReplyItems ==
    {[isStr |-> TRUE, val |-> "network_reset"],
     [isStr |-> TRUE, val |-> "cleanup_temp"],
     [isStr |-> TRUE, val |-> "unknown_id"],
     [isStr |-> FALSE, val |-> "42"]}

\* the remote strategy was not called
NoReply ==
    [called |-> FALSE, raises |-> FALSE, isJson |-> FALSE, isList |-> FALSE,
     items |-> <<>>]

\* the call raised
ReplyRaises ==
    [called |-> TRUE, raises |-> TRUE, isJson |-> FALSE, isList |-> FALSE,
     items |-> <<>>]

\* the text is not JSON: json.loads raises
ReplyNotJson ==
    [called |-> TRUE, raises |-> FALSE, isJson |-> FALSE, isList |-> FALSE,
     items |-> <<>>]

\* the text is JSON, but not an array
ReplyNotArray ==
    [called |-> TRUE, raises |-> FALSE, isJson |-> TRUE, isList |-> FALSE,
     items |-> <<>>]

\* the text is a JSON array
ReplyArray(items) ==
    [called |-> TRUE, raises |-> FALSE, isJson |-> TRUE, isList |-> TRUE,
     items |-> items]

Replies ==
    {ReplyRaises, ReplyNotJson, ReplyNotArray}
    \cup UNION {{ReplyArray(it) : it \in [1..n -> ReplyItems]} : n \in 0..MaxReplyLen}

\* the replies an environment can produce
RepliesOf(e) == IF _is_gemini_configured(e) THEN Replies ELSE {NoReply}

\* the requests tried with an environment
RequestsOf(e) == IF _is_gemini_configured(e) THEN Phrases ELSE Requests

\* requests that are empty after strip()
BlankRequests == {"", "  ", " \t\n "}

\* the arguments tried with an environment
RequestArgs(e) == {None} \cup {Str(s) : s \in RequestsOf(e) \cup BlankRequests}

----------------------------------------------------------------------------
(* core/privacy_tools.py.  A registry value is a DWORD or does not exist   *)
(* (None, written NoValue here).                                            *)

NoValue == -1

RegValues == {NoValue, 0, 1}

Setting(key, value) == [key |-> key, value |-> value]

_RECOMMENDED_SETTINGS ==
    <<Setting("AdvertisingInfo\\Enabled", 0),
      Setting("Privacy\\TailoredExperiencesWithDiagnosticDataEnabled", 0),
      Setting("Explorer\\Advanced\\Start_TrackProgs", 0),
      Setting("BackgroundAccessApplications\\GlobalUserDisabled", 1),
      Setting("lfsvc\\Service\\Configuration\\Status", 0)>>

SettingKeys == {_RECOMMENDED_SETTINGS[i].key : i \in 1..Len(_RECOMMENDED_SETTINGS)}

\* _BACKUP = {}
NoBackup == [k \in {} |-> NoValue]

\* _BACKUP[key] = original
BackupPut(b, key, original) ==
    [k \in DOMAIN b \cup {key} |-> IF k = key THEN original ELSE b[k]]

----------------------------------------------------------------------------
(* Handlers.  A handler returns a non-empty string, returns nothing, or    *)
(* raises; the built-in aggregates catch every sub-tool failure and always *)
(* return a string, the other built-ins return a string or raise.          *)

Aggregates == {"cleanup_recommended", "health_full"}

HandlerOutcomes(aid) ==
    IF aid \in Aggregates THEN {"text"}
    ELSE IF HasId(BuiltinActions, aid) THEN {"text", "raise"}
    ELSE {"text", "none", "raise"}

\* the string a handler returns, and str(e) of the error it raises
ResultText(aid) == "ok " \o aid
ErrorText(aid) == "fail " \o aid

\* the outcomes a sequence of actions can have, one per step
OutcomesOf(acts) ==
    {o \in [1..Len(acts) -> {"text", "none", "raise"}] :
        \A i \in 1..Len(acts) : o[i] \in HandlerOutcomes(acts[i].id)}

Event(name, status, info) == [name |-> name, status |-> status, info |-> info]

----------------------------------------------------------------------------
(* core/system_tools.py and core/privacy_tools.py as the handlers of       *)
(* core/actions.py see them.  A tool function is found by hasattr or not;  *)
(* a call of it returns a non-empty string or raises.                      *)

SystemTools ==
    {"cleanup_temp_files", "cleanup_prefetch", "cleanup_windows_update_cache",
     "run_sfc_scan", "run_dism_health_scan", "schedule_chkdsk",
     "reset_network_stack", "open_task_manager", "open_device_manager",
     "open_services_console", "open_system_restore"}

PrivacyTools ==
    {"apply_recommended_privacy_profile", "apply_strict_privacy_profile",
     "restore_privacy_defaults"}

AllTools == SystemTools \cup PrivacyTools

\* the system tools that can raise on their own: _ensure_windows, a command
\* that does not start; the privacy tools catch every failure and return
Fallible == SystemTools \ {"cleanup_windows_update_cache"}

\* an entry of the trace: a log_action event (kind START, SUCCESS, ERROR),
\* the call of a handler ("invoke"), of a tool ("tool"), and the steps of
\* cleanup_windows_update_cache ("sc stop", "sc start", "clear")
Tr(kind, name, info) == [kind |-> kind, name |-> name, info |-> info]

\* what a call did: it returned a string (kind "text"), returned None
\* ("none") or raised ("raise"); text is the string or str(e); events is
\* what happened inside the call
Outcome(kind, text, events) == [kind |-> kind, text |-> text, events |-> events]

\* the string a tool returns, and str(e) of the error it raises
ToolText(tool) == tool \o " done"
ToolError(tool) == tool \o " error"

\* "\n".join(messages), for a non-empty list
RECURSIVE JoinLines(_)
JoinLines(messages) ==
    IF Len(messages) = 1 THEN messages[1]
    ELSE messages[1] \o "\n" \o JoinLines(Tail(messages))

NotWindows == "This action is only supported on Windows."

Services == <<"wuauserv", "bits", "cryptsvc">>

\* "for svc in services: try: _run_command(["sc", verb, svc], check=False)
\*  except Exception: logger.warning(...)": every service is attempted, a
\* command that does not start is logged
ScLoop(verb, raises) ==
    [i \in 1..Len(Services) |->
        Tr("sc " \o verb, Services[i],
           IF Services[i] \in raises THEN "raise" ELSE "ok")]

\* _delete_in_dir(path): the directory is missing (0, 0), its entries are
\* deleted ("cleared"), the deletion of some entries fails and is logged
\* ("partial"), or path.iterdir() itself raises ("raise": the statement
\* "for entry in path.iterdir()" is outside the try)
DirOutcomes == {"missing", "cleared", "partial", "raise"}

_delete_in_dir(path, how) ==
    IF how = "raise"
    THEN Outcome("raise", "cannot list " \o path, <<Tr("clear", path, how)>>)
    ELSE Outcome("text", "", <<Tr("clear", path, how)>>)

\* cleanup_windows_update_cache(); w is what the machine does:
\* [windows, stopRaises, sd, catroot2, startRaises]
cleanup_windows_update_cache(w) ==
    IF ~w.windows THEN Outcome("raise", NotWindows, <<>>)
    ELSE LET stops == ScLoop("stop", w.stopRaises)
             sd == _delete_in_dir("SoftwareDistribution", w.sd)
             cat == _delete_in_dir("catroot2", w.catroot2)
         IN  IF sd.kind = "raise"
             THEN Outcome("raise", sd.text, stops \o sd.events)
             ELSE IF cat.kind = "raise"
             THEN Outcome("raise", cat.text, stops \o sd.events \o cat.events)
             ELSE Outcome("text",
                          "Windows Update cache cleanup completed.\n"
                          \o "SoftwareDistribution and catroot2 contents were cleared. "
                          \o "Windows Update services were restarted.",
                          stops \o sd.events \o cat.events
                          \o ScLoop("start", w.startRaises))

\* a machine on which cleanup_windows_update_cache meets no failure
QuietMachine ==
    [windows |-> TRUE, stopRaises |-> {}, sd |-> "cleared", catroot2 |-> "cleared",
     startRaises |-> {}]

\* the machines cleanup_windows_update_cache is run on
Machines ==
    {[QuietMachine EXCEPT !.windows = FALSE]}
    \cup {[windows |-> TRUE, stopRaises |-> st, sd |-> d1, catroot2 |-> d2,
           startRaises |-> sa] :
            st \in {{}, {"bits"}, {"wuauserv", "bits", "cryptsvc"}},
            d1 \in DirOutcomes, d2 \in DirOutcomes,
            sa \in {{}, {"wuauserv"}}}

\* the handlers of the plugin actions
PluginFuncs == {"net_diag", "net_trace"}

\* the call of a tool function; b is what the tools do in this interaction:
\* [raises, wu, plugin]
ToolCall(tool, b) ==
    IF tool = "cleanup_windows_update_cache"
    THEN LET r == cleanup_windows_update_cache(b.wu)
         IN  Outcome(r.kind, r.text, <<Tr("tool", tool, r.kind)>> \o r.events)
    ELSE IF tool \in b.raises
    THEN Outcome("raise", ToolError(tool), <<Tr("tool", tool, "raise")>>)
    ELSE Outcome("text", ToolText(tool), <<Tr("tool", tool, "text")>>)

\* the built-in handlers of one tool: the handler, its tool function and the
\* message of the RuntimeError it raises when hasattr does not find the tool
SingleToolHandlers ==
    {[func |-> "_cleanup_temp", tool |-> "cleanup_temp_files",
      missing |-> "Temp cleanup tool is not available."],
     [func |-> "_cleanup_prefetch", tool |-> "cleanup_prefetch",
      missing |-> "Prefetch cleanup tool is not available."],
     [func |-> "_cleanup_windows_update_cache", tool |-> "cleanup_windows_update_cache",
      missing |-> "Windows Update cache cleanup is not available."],
     [func |-> "_run_sfc", tool |-> "run_sfc_scan",
      missing |-> "SFC scan tool is not available."],
     [func |-> "_run_dism", tool |-> "run_dism_health_scan",
      missing |-> "DISM health scan tool is not available."],
     [func |-> "_run_chkdsk", tool |-> "schedule_chkdsk",
      missing |-> "CHKDSK scheduling tool is not available."],
     [func |-> "_network_reset", tool |-> "reset_network_stack",
      missing |-> "Network reset tool is not available."],
     [func |-> "_open_task_manager", tool |-> "open_task_manager",
      missing |-> "Task Manager tool is not available."],
     [func |-> "_open_device_manager", tool |-> "open_device_manager",
      missing |-> "Device Manager tool is not available."],
     [func |-> "_open_services", tool |-> "open_services_console",
      missing |-> "Services console tool is not available."],
     [func |-> "_open_system_restore", tool |-> "open_system_restore",
      missing |-> "System Restore tool is not available."],
     [func |-> "_privacy_recommended", tool |-> "apply_recommended_privacy_profile",
      missing |-> "Recommended privacy profile is not available."],
     [func |-> "_privacy_strict", tool |-> "apply_strict_privacy_profile",
      missing |-> "Strict privacy profile is not available."],
     [func |-> "_privacy_restore_defaults", tool |-> "restore_privacy_defaults",
      missing |-> "Privacy defaults restore is not available."]}

\* a single-tool handler as a bug would have it: a missing tool is reported
\* in the string the handler returns
_single_tool_reports(h, av, b) ==
    IF h.tool \notin av THEN Outcome("text", h.missing, <<>>)
    ELSE ToolCall(h.tool, b)

\* def _cleanup_temp() and the like: "if not system_tools or not
\* hasattr(system_tools, ...): raise RuntimeError(...)", then the tool
_single_tool(h, av, b) ==
    IF h.tool \notin av THEN Outcome("raise", h.missing, <<>>)
    ELSE ToolCall(h.tool, b)

\* the loop of an aggregate as a bug would have it: the first failing
\* sub-tool ends the loop
RECURSIVE AggregateLoopAbort(_, _, _, _)
AggregateLoopAbort(tools, i, av, b) ==
    IF i > Len(tools) THEN [messages |-> <<>>, events |-> <<>>]
    ELSE IF tools[i] \notin av THEN AggregateLoopAbort(tools, i + 1, av, b)
    ELSE LET r == ToolCall(tools[i], b)
         IN  IF r.kind = "raise"
             THEN [messages |-> <<tools[i] \o " failed: " \o r.text>>,
                   events |-> r.events]
             ELSE LET rest == AggregateLoopAbort(tools, i + 1, av, b)
                  IN  [messages |-> (IF r.text # "" THEN <<r.text>> ELSE <<>>)
                                    \o rest.messages,
                       events |-> r.events \o rest.events]

\* "for func_name in (...)" of _cleanup_recommended and _health_full: a
\* missing tool is skipped, a result is kept if it is not empty, a failure
\* is kept as "<func_name> failed: <e>"
RECURSIVE AggregateLoop(_, _, _, _)
AggregateLoop(tools, i, av, b) ==
    IF i > Len(tools) THEN [messages |-> <<>>, events |-> <<>>]
    ELSE IF tools[i] \notin av THEN AggregateLoop(tools, i + 1, av, b)
    ELSE LET r == ToolCall(tools[i], b)
             rest == AggregateLoop(tools, i + 1, av, b)
             msg == IF r.kind = "raise" THEN <<tools[i] \o " failed: " \o r.text>>
                    ELSE IF r.text # "" THEN <<r.text>>
                    ELSE <<>>
         IN  [messages |-> msg \o rest.messages, events |-> r.events \o rest.events]

\* "if messages: return "\n".join(messages)", else the closing sentence
Aggregate(tools, done, av, b) ==
    LET r == AggregateLoop(tools, 1, av, b)
    IN  Outcome("text",
                IF r.messages # <<>> THEN JoinLines(r.messages) ELSE done,
                r.events)

CleanupRecommendedTools ==
    <<"cleanup_temp_files", "cleanup_prefetch", "cleanup_windows_update_cache">>

HealthFullTools == <<"run_sfc_scan", "run_dism_health_scan">>

_cleanup_recommended(av, b) ==
    Aggregate(CleanupRecommendedTools, "Cleanup completed.", av, b)

_health_full(av, b) ==
    Aggregate(HealthFullTools, "Health checks completed.", av, b)

\* action.func(): the call of the handler of a
func(a, av, b) ==
    IF a.func = "_cleanup_recommended" THEN _cleanup_recommended(av, b)
    ELSE IF a.func = "_health_full" THEN _health_full(av, b)
    ELSE IF \E h \in SingleToolHandlers : h.func = a.func
    THEN _single_tool(CHOOSE h \in SingleToolHandlers : h.func = a.func, av, b)
    ELSE IF b.plugin[a.func] = "text" THEN Outcome("text", ResultText(a.id), <<>>)
    ELSE IF b.plugin[a.func] = "none" THEN Outcome("none", "", <<>>)
    ELSE Outcome("raise", ErrorText(a.id), <<>>)

\* the tool functions the handler of a calls
ToolsOf(a) ==
    IF a.func = "_cleanup_recommended"
    THEN {CleanupRecommendedTools[i] : i \in 1..Len(CleanupRecommendedTools)}
    ELSE IF a.func = "_health_full"
    THEN {HealthFullTools[i] : i \in 1..Len(HealthFullTools)}
    ELSE {h.tool : h \in {g \in SingleToolHandlers : g.func = a.func}}

\* nothing fails
NoBehaviour ==
    [raises |-> {}, wu |-> QuietMachine, plugin |-> [f \in PluginFuncs |-> "text"]]

\* what the tools and the plugin handlers of a plan can do
Behaviours(acts, av) ==
    LET used == UNION {ToolsOf(acts[i]) : i \in 1..Len(acts)} \cap av
        plugins == {acts[i].func : i \in 1..Len(acts)} \cap PluginFuncs
    IN  {[raises |-> S, wu |-> w, plugin |-> p] :
            S \in SUBSET (used \cap Fallible),
            w \in IF "cleanup_windows_update_cache" \in used
                  THEN Machines ELSE {QuietMachine},
            p \in {q \in [PluginFuncs -> {"text", "none", "raise"}] :
                      \A f \in PluginFuncs \ plugins : q[f] = "text"}}

\* the outcomes of the abstract handlers: the kind, and the strings
\* ResultText and ErrorText
StubOutcomes(acts, kinds) ==
    [i \in 1..Len(acts) |->
        Outcome(kinds[i],
                IF kinds[i] = "text" THEN ResultText(acts[i].id)
                ELSE IF kinds[i] = "raise" THEN ErrorText(acts[i].id)
                ELSE "",
                <<>>)]

Kinds(outs) == [i \in 1..Len(outs) |-> outs[i].kind]

----------------------------------------------------------------------------
(* The import of core/actions.py as one function of the plugins package:   *)
(* the registry, the warnings and the ids registered when it is over.       *)

\* a registration function runs body: every register_action up to the end or
\* to the raise, which load_plugins logs for the module m
RECURSIVE RunBody(_, _, _)
RunBody(st, body, m) ==
    IF body = <<>> THEN st
    ELSE IF Head(body).op = "raise"
    THEN [st EXCEPT !.warnings = Append(@, RegisterFailed(m))]
    ELSE LET a == Head(body).action
         IN  RunBody([actions |-> register_action(st.actions, a),
                      warnings |-> IF HasId(st.actions, a.id)
                                   THEN Append(st.warnings, Overwriting(a.id))
                                   ELSE st.warnings,
                      registered |-> st.registered \cup {a.id}],
                     Tail(body), m)

_register_builtin_actions ==
    RunBody([actions |-> <<>>, warnings |-> <<>>, registered |-> {}],
            BuiltinBody, Module("", TRUE, TRUE, <<>>))

RECURSIVE load_plugins(_, _)
load_plugins(st, mods) ==
    IF mods = <<>> THEN st
    ELSE LET m == Head(mods)
         IN  load_plugins(
                 IF CharAt(m.name, 1) = "_" THEN st
                 ELSE IF ~m.importOk
                 THEN [st EXCEPT !.warnings = Append(@, ImportFailed(m))]
                 ELSE IF ~m.hasRegister THEN st
                 ELSE RunBody(st, m.body, m),
                 Tail(mods))

\* "_register_builtin_actions(); load_plugins()" at the end of actions.py
Imported(mods) == load_plugins(_register_builtin_actions, mods)

----------------------------------------------------------------------------
(* The state after the modules are imported.                                *)

\* _register_builtin_actions(), then load_plugins()
StartupActions == BuiltinActions

Threads == {1, 2}

\* actions.py is about to be imported, over any plugins package
InitImport ==
    /\ _ACTIONS = <<>>
    /\ phase = "builtins"
    /\ pending = BuiltinBody
    /\ modules \in Directories
    /\ midx = 1
    /\ warnings = <<>>
    /\ registered = {}
    /\ api = NoCall

\* actions.py was imported, with the plugins package of the repository
InitReady ==
    /\ _ACTIONS = StartupActions
    /\ phase = "ready"
    /\ pending = <<>>
    /\ modules = RepositoryPlugins
    /\ midx = Len(RepositoryPlugins) + 1
    /\ warnings = <<RegisterFailed(example_cleanup)>>
    /\ registered = {BuiltinActions[i].id : i \in 1..Len(BuiltinActions)}
    /\ api = NoCall

InitRouter ==
    /\ rpc = "idle"
    /\ env = [genai |-> FALSE, GEMINI_API_KEY |-> "", GOOGLE_API_KEY |-> ""]
    /\ request = ""
    /\ requestNone = FALSE
    /\ reply = NoReply
    /\ strategies = <<>>
    /\ plan = <<>>

InitSurface ==
    /\ surface = "idle"
    /\ asked = <<>>
    /\ blanket = FALSE
    /\ invoked = <<>>
    /\ outcomes = <<>>
    /\ log = <<>>
    /\ results = <<>>
    /\ activity = <<>>
    /\ cliPc = "prompt"

\* no privacy action has run; a registry without the values
InitPrivacy ==
    /\ registry = [k \in SettingKeys |-> NoValue]
    /\ pristine = registry
    /\ _BACKUP = NoBackup
    /\ tpc = [t \in Threads |-> "idle"]
    /\ tidx = [t \in Threads |-> 0]
    /\ toriginal = [t \in Threads |-> NoValue]
    /\ applies = 0

\* both tool modules were imported and have every function; no handler ran
InitTools ==
    /\ avail = AllTools
    /\ behaviour = NoBehaviour
    /\ trace = <<>>

\* a call of the privacy tools: the function, the string it returned
ProfileCall(op, msg) == [op |-> op, msg |-> msg]

NoProfileCall == ProfileCall("none", "")

\* no privacy tool was called
InitProfiles ==
    /\ lastOp = NoProfileCall
    /\ stores = [k \in {} |-> 0]
    /\ firstRead = NoBackup
    /\ writesOk = TRUE

\* time.time() when the tray agent starts
StartTime == 1000

\* what get_system_info gave: it raised, or cpu_percent, ram_percent and the
\* percent_used of each disk
Reading(ok, cpu, ram, disks) == [ok |-> ok, cpu |-> cpu, ram |-> ram, disks |-> disks]

NoReading == Reading(FALSE, 0, 0, <<>>)

\* monitor() is about to enter "while True"
InitMonitor ==
    /\ clock = StartTime
    /\ checks = 0
    /\ reading = NoReading
    /\ last_cpu_notify = 0
    /\ last_ram_notify = 0
    /\ last_disk_notify = 0
    /\ issued = <<>>

Init ==
    /\ InitReady
    /\ InitRouter
    /\ InitSurface
    /\ InitPrivacy
    /\ InitTools
    /\ InitProfiles
    /\ InitMonitor

\* the tray process at start, over any registry
InitTray ==
    /\ InitReady
    /\ InitRouter
    /\ InitSurface
    /\ registry \in [SettingKeys -> RegValues]
    /\ pristine = registry
    /\ _BACKUP = NoBackup
    /\ tpc = [t \in Threads |-> "idle"]
    /\ tidx = [t \in Threads |-> 0]
    /\ toriginal = [t \in Threads |-> NoValue]
    /\ applies = 0
    /\ InitTools
    /\ InitProfiles
    /\ InitMonitor

----------------------------------------------------------------------------
(* The import of core/actions.py: _register_builtin_actions(), then        *)
(* load_plugins(); after it, the calls of the read API.                     *)

\* the next call of register_action by the running registration function
RegisterStep ==
    /\ pending # <<>>
    /\ Head(pending).op = "register"
    /\ LET a == Head(pending).action
       IN  /\ warnings' = IF HasId(_ACTIONS, a.id)
                          THEN Append(warnings, Overwriting(a.id))
                          ELSE warnings
           /\ _ACTIONS' = register_action(_ACTIONS, a)
           /\ registered' = registered \cup {a.id}
           /\ api' = Call("register", a.id, a, HasId(_ACTIONS, a.id), <<>>)
    /\ pending' = Tail(pending)
    /\ UNCHANGED <<phase, modules, midx>>
    /\ UNCHANGED <<routerVars, surfaceVars, privacyVars, executorVars, profileVars, monitorVars>>

\* a plugin's register() raises: load_plugins logs it and goes on
RegisterRaises ==
    /\ pending # <<>>
    /\ Head(pending).op = "raise"
    /\ warnings' = Append(warnings, RegisterFailed(modules[midx - 1]))
    /\ pending' = <<>>
    /\ UNCHANGED <<_ACTIONS, phase, modules, midx, registered, api>>
    /\ UNCHANGED <<routerVars, surfaceVars, privacyVars, executorVars, profileVars, monitorVars>>

\* _register_builtin_actions() returns; load_plugins() is called
BuiltinsDone ==
    /\ phase = "builtins"
    /\ pending = <<>>
    /\ phase' = "plugins"
    /\ UNCHANGED <<_ACTIONS, pending, modules, midx, warnings, registered, api>>
    /\ UNCHANGED <<routerVars, surfaceVars, privacyVars, executorVars, profileVars, monitorVars>>

\* one turn of "for module_info in iter_modules" as a bug would have it: a
\* module that cannot be imported ends the loading
LoadModuleAbort ==
    /\ phase = "plugins"
    /\ pending = <<>>
    /\ midx <= Len(modules)
    /\ LET m == modules[midx]
       IN  IF CharAt(m.name, 1) = "_"
           THEN UNCHANGED <<warnings, pending>> /\ midx' = midx + 1
           ELSE IF ~m.importOk
           THEN /\ warnings' = Append(warnings, ImportFailed(m))
                /\ midx' = Len(modules) + 1
                /\ UNCHANGED pending
           ELSE IF ~m.hasRegister
           THEN UNCHANGED <<warnings, pending>> /\ midx' = midx + 1
           ELSE /\ pending' = m.body
                /\ midx' = midx + 1
                /\ UNCHANGED warnings
    /\ UNCHANGED <<_ACTIONS, phase, modules, registered, api>>
    /\ UNCHANGED <<routerVars, surfaceVars, privacyVars, executorVars, profileVars, monitorVars>>

\* one turn of "for module_info in iter_modules": skip a private module,
\* import the module, call its register if it has one
LoadModule ==
    /\ phase = "plugins"
    /\ pending = <<>>
    /\ midx <= Len(modules)
    /\ LET m == modules[midx]
       IN  IF CharAt(m.name, 1) = "_"
           THEN UNCHANGED <<warnings, pending>>
           ELSE IF ~m.importOk
           THEN warnings' = Append(warnings, ImportFailed(m)) /\ UNCHANGED pending
           ELSE IF ~m.hasRegister
           THEN UNCHANGED <<warnings, pending>>
           ELSE pending' = m.body /\ UNCHANGED warnings
    /\ midx' = midx + 1
    /\ UNCHANGED <<_ACTIONS, phase, modules, registered, api>>
    /\ UNCHANGED <<routerVars, surfaceVars, privacyVars, executorVars, profileVars, monitorVars>>

\* load_plugins() returns; the module is imported
PluginsDone ==
    /\ phase = "plugins"
    /\ pending = <<>>
    /\ midx > Len(modules)
    /\ phase' = "ready"
    /\ UNCHANGED <<_ACTIONS, pending, modules, midx, warnings, registered, api>>
    /\ UNCHANGED <<routerVars, surfaceVars, privacyVars, executorVars, profileVars, monitorVars>>

\* the groups and ids the read API is called with
ProbeGroups == {"cleanup", "health", "network", "tools", "privacy", "extras", "nosuch"}
ProbeIds == {"cleanup_temp", "network_reset", "net_diag", "half_a",
             "private_action", "deep_cleanup", "temp sweep"}

\* the calls that only read the registry
ReadOps == {"list_all", "list_by_group", "lookup"}

\* list_actions()
ListAll ==
    /\ phase = "ready"
    /\ api.op \notin ReadOps
    /\ api' = Call("list_all", "", NoAction, FALSE, list_actions(_ACTIONS))
    /\ UNCHANGED <<_ACTIONS, phase, pending, modules, midx, warnings, registered>>
    /\ UNCHANGED <<routerVars, surfaceVars, privacyVars, executorVars, profileVars, monitorVars>>

\* get_actions_by_group(group)
ListByGroup ==
    /\ phase = "ready"
    /\ api.op \notin ReadOps
    /\ \E group \in ProbeGroups :
         api' = Call("list_by_group", group, NoAction, FALSE,
                     get_actions_by_group(_ACTIONS, group))
    /\ UNCHANGED <<_ACTIONS, phase, pending, modules, midx, warnings, registered>>
    /\ UNCHANGED <<routerVars, surfaceVars, privacyVars, executorVars, profileVars, monitorVars>>

\* get_action_by_id(action_id): the Action, or None
Lookup ==
    /\ phase = "ready"
    /\ api.op \notin ReadOps
    /\ \E aid \in ProbeIds :
         api' = IF HasId(_ACTIONS, aid)
                THEN Call("lookup", aid, get_action_by_id(_ACTIONS, aid), TRUE, <<>>)
                ELSE Call("lookup", aid, NoAction, FALSE, <<>>)
    /\ UNCHANGED <<_ACTIONS, phase, pending, modules, midx, warnings, registered>>
    /\ UNCHANGED <<routerVars, surfaceVars, privacyVars, executorVars, profileVars, monitorVars>>

\* the caller has consumed what the call returned
ApiReturn ==
    /\ api.op \in ReadOps
    /\ api' = NoCall
    /\ UNCHANGED <<_ACTIONS, phase, pending, modules, midx, warnings, registered>>
    /\ UNCHANGED <<routerVars, surfaceVars, privacyVars, executorVars, profileVars, monitorVars>>

NextCatalog ==
    \/ RegisterStep
    \/ RegisterRaises
    \/ BuiltinsDone
    \/ LoadModule
    \/ PluginsDone
    \/ ListAll
    \/ ListByGroup
    \/ Lookup
    \/ ApiReturn

InitCatalog ==
    /\ InitImport
    /\ InitRouter
    /\ InitSurface
    /\ InitPrivacy
    /\ InitTools
    /\ InitProfiles
    /\ InitMonitor

SpecCatalog == InitCatalog /\ [][NextCatalog]_vars

----------------------------------------------------------------------------
(* The router on its own: one call of choose_actions_for_request.           *)

Resolve ==
    /\ rpc = "idle"
    /\ \E e \in Envs :
         \E arg \in RequestArgs(e), rp \in RepliesOf(e) :
            \E r \in {ResolveCall(_ACTIONS, e, arg, rp)} :
                /\ env' = e
                /\ request' = OrEmpty(arg)
                /\ requestNone' = arg.none
                /\ reply' = IF \E i \in 1..Len(r.calls) : r.calls[i] = "generate_content"
                            THEN rp ELSE NoReply
                /\ strategies' = r.calls
                /\ plan' = r.actions
    /\ rpc' = "resolved"
    /\ UNCHANGED <<_ACTIONS, catalogVars, surfaceVars, privacyVars, executorVars, profileVars, monitorVars>>

\* the caller has consumed the plan; the call's locals are gone
ResolveReturn ==
    /\ rpc = "resolved"
    /\ rpc' = "idle"
    /\ env' = [genai |-> FALSE, GEMINI_API_KEY |-> "", GOOGLE_API_KEY |-> ""]
    /\ request' = ""
    /\ requestNone' = FALSE
    /\ reply' = NoReply
    /\ strategies' = <<>>
    /\ plan' = <<>>
    /\ UNCHANGED <<_ACTIONS, catalogVars, surfaceVars, privacyVars, executorVars, profileVars, monitorVars>>

NextRouter == Resolve \/ ResolveReturn

SpecRouter == Init /\ [][NextRouter]_vars

----------------------------------------------------------------------------
(* core/ai_interpreter.py: interpret_command, the executor loop.  outs[i]  *)
(* is the Outcome of the call of the handler of step i.                     *)

\* one iteration of "for action in actions" as a bug would have it: the
\* first failure ends the loop
RECURSIVE InterpretLoopAbort(_, _, _)
InterpretLoopAbort(acts, outs, i) ==
    IF i > Len(acts)
    THEN [results |-> <<>>, log |-> <<>>, invoked |-> <<>>, trace |-> <<>>]
    ELSE LET a == acts[i]
             raised == outs[i].kind = "raise"
             rest == IF raised
                     THEN [results |-> <<>>, log |-> <<>>, invoked |-> <<>>,
                           trace |-> <<>>]
                     ELSE InterpretLoopAbort(acts, outs, i + 1)
             line == IF raised THEN a.name \o ": ERROR - " \o outs[i].text
                     ELSE IF outs[i].text # "" THEN a.name \o ": " \o outs[i].text
                     ELSE a.name \o ": completed."
             done == IF raised
                     THEN Event(a.name, "ERROR", outs[i].text)
                     ELSE Event(a.name, "SUCCESS", "")
         IN  [results |-> <<line>> \o rest.results,
              log |-> <<Event(a.name, "START", ""), done>> \o rest.log,
              invoked |-> <<a.id>> \o rest.invoked,
              trace |-> <<Tr("START", a.name, ""), Tr("invoke", a.id, "")>>
                        \o outs[i].events
                        \o <<Tr(done.status, a.name, done.info)>> \o rest.trace]

\* one iteration as a bug would have it: SUCCESS is logged in a finally
\* clause, after the ERROR of a failed step too
RECURSIVE InterpretLoopFinally(_, _, _)
InterpretLoopFinally(acts, outs, i) ==
    IF i > Len(acts)
    THEN [results |-> <<>>, log |-> <<>>, invoked |-> <<>>, trace |-> <<>>]
    ELSE LET a == acts[i]
             raised == outs[i].kind = "raise"
             rest == InterpretLoopFinally(acts, outs, i + 1)
             line == IF raised THEN a.name \o ": ERROR - " \o outs[i].text
                     ELSE IF outs[i].text # "" THEN a.name \o ": " \o outs[i].text
                     ELSE a.name \o ": completed."
             done == (IF raised THEN <<Event(a.name, "ERROR", outs[i].text)>>
                      ELSE <<>>) \o <<Event(a.name, "SUCCESS", "")>>
         IN  [results |-> <<line>> \o rest.results,
              log |-> <<Event(a.name, "START", "")>> \o done \o rest.log,
              invoked |-> <<a.id>> \o rest.invoked,
              trace |-> <<Tr("START", a.name, ""), Tr("invoke", a.id, "")>>
                        \o outs[i].events
                        \o [k \in 1..Len(done) |->
                               Tr(done[k].status, a.name, done[k].info)]
                        \o rest.trace]

\* "for action in actions": log START, call the handler, then "if result"
\* the line of the result, else "completed.", and log SUCCESS; on an
\* exception the line of the error, and log ERROR
RECURSIVE InterpretLoop(_, _, _)
InterpretLoop(acts, outs, i) ==
    IF i > Len(acts)
    THEN [results |-> <<>>, log |-> <<>>, invoked |-> <<>>, trace |-> <<>>]
    ELSE LET a == acts[i]
             raised == outs[i].kind = "raise"
             rest == InterpretLoop(acts, outs, i + 1)
             line == IF raised THEN a.name \o ": ERROR - " \o outs[i].text
                     ELSE IF outs[i].text # "" THEN a.name \o ": " \o outs[i].text
                     ELSE a.name \o ": completed."
             done == IF raised
                     THEN Event(a.name, "ERROR", outs[i].text)
                     ELSE Event(a.name, "SUCCESS", "")
         IN  [results |-> <<line>> \o rest.results,
              log |-> <<Event(a.name, "START", ""), done>> \o rest.log,
              invoked |-> <<a.id>> \o rest.invoked,
              trace |-> <<Tr("START", a.name, ""), Tr("invoke", a.id, "")>>
                        \o outs[i].events
                        \o <<Tr(done.status, a.name, done.info)>> \o rest.trace]

NoMatchMsg ==
    "I couldn't match that to any known action yet. Try rephrasing or be more specific."

\* interpret_command once the plan is chosen; the returned summary is the
\* lines of results joined by newlines
interpret_command(acts, outs) ==
    IF acts = <<>>
    THEN [results |-> <<NoMatchMsg>>, log |-> <<>>, invoked |-> <<>>, trace |-> <<>>]
    ELSE InterpretLoop(acts, outs, 1)

----------------------------------------------------------------------------
(* The surfaces.  Each action is one handler from the user's gesture to    *)
(* its return; SurfaceReturn is the surface back at rest.                   *)

SurfaceTexts ==
    {"reset network", "run sfc and dism health check", "open task manager",
     "hello", "  ", " clean up ", "Privacy strict"}

SurfaceEnvs ==
    {[genai |-> FALSE, GEMINI_API_KEY |-> "", GOOGLE_API_KEY |-> ""],
     [genai |-> TRUE, GEMINI_API_KEY |-> "k", GOOGLE_API_KEY |-> ""]}

SurfaceReplies ==
    {ReplyRaises,
     ReplyArray(<<[isStr |-> TRUE, val |-> "network_reset"],
                  [isStr |-> TRUE, val |-> "network_reset"],
                  [isStr |-> TRUE, val |-> "unknown_id"]>>),
     ReplyArray(<<[isStr |-> TRUE, val |-> "cleanup_temp"]>>)}

SurfaceRepliesOf(e) == IF _is_gemini_configured(e) THEN SurfaceReplies ELSE {NoReply}

NoEnv == [genai |-> FALSE, GEMINI_API_KEY |-> "", GOOGLE_API_KEY |-> ""]

Ask(what, answer) == [what |-> what, answer |-> answer]

\* a handler that returned before resolving or running anything
Returned(name, asks, lines) ==
    /\ surface' = name
    /\ asked' = asks
    /\ blanket' = FALSE
    /\ invoked' = <<>>
    /\ outcomes' = <<>>
    /\ log' = <<>>
    /\ results' = <<>>
    /\ activity' = lines
    /\ UNCHANGED <<rpc, env, request, requestNone, reply, strategies, plan>>

\* the call interpret_command(text) made by a GUI handler
CallInterpret(name, text, asks, accepted, prefix) ==
    \E e \in SurfaceEnvs : \E rp \in SurfaceRepliesOf(e) :
        LET acts == choose_actions_for_request(_ACTIONS, e, Str(text), rp)
        IN  \E outs \in OutcomesOf(acts) :
                LET r == interpret_command(acts, StubOutcomes(acts, outs))
                IN  /\ surface' = name
                    /\ env' = e
                    /\ request' = text
                    /\ requestNone' = FALSE
                    /\ reply' = rp
                    /\ strategies' = ResolveCall(_ACTIONS, e, Str(text), rp).calls
                    /\ plan' = acts
                    /\ asked' = asks
                    /\ blanket' = accepted
                    /\ invoked' = r.invoked
                    /\ outcomes' = outs
                    /\ log' = r.log
                    /\ results' = r.results
                    /\ activity' = <<prefix \o text>> \o r.results
                    /\ UNCHANGED rpc

\* gui.py: the free-text command box
GuiRunCommand ==
    /\ surface = "idle"
    /\ \E raw \in SurfaceTexts :
         LET text == strip(raw)
         IN  IF text = ""
             THEN Returned("gui_command", <<>>, <<>>)
             ELSE CallInterpret("gui_command", text, <<>>, FALSE, "> ")
    /\ UNCHANGED <<_ACTIONS, catalogVars, cliPc, privacyVars, executorVars, profileVars, monitorVars>>

QuickMapping(category) ==
    CASE category = "privacy" ->
            "Apply the recommended privacy profile for Windows."
      [] category = "cleanup" ->
            "Run a safe system cleanup: temp files, prefetch, and Windows Update cache."
      [] category = "network" ->
            "Perform a standard network reset including DNS flush and Winsock reset."
      [] category = "health" ->
            "Run system health checks such as SFC and DISM."
      [] category = "tools" ->
            "Open useful system tools like Task Manager, Device Manager, Services, and System Restore."
      [] OTHER -> ""

QuickCategories == {"privacy", "cleanup", "network", "health", "tools"}

\* gui.py: the quick action buttons of the Home tab
GuiQuickAction ==
    /\ surface = "idle"
    /\ \E category \in QuickCategories :
         LET text == QuickMapping(category)
         IN  IF text = ""
             THEN Returned("gui_quick", <<>>, <<>>)
             ELSE IF category \in {"cleanup", "network", "health"}
             THEN \E answer \in BOOLEAN :
                    IF ~answer
                    THEN Returned("gui_quick", <<Ask(category, FALSE)>>, <<>>)
                    ELSE CallInterpret("gui_quick", text, <<Ask(category, TRUE)>>,
                                       TRUE, "> [Quick] ")
             ELSE CallInterpret("gui_quick", text, <<>>, FALSE, "> [Quick] ")
    /\ UNCHANGED <<_ACTIONS, catalogVars, cliPc, privacyVars, executorVars, profileVars, monitorVars>>

\* what a surface does with one action it runs on its own
RunOne(name, a, asks, lines, out) ==
    /\ surface' = name
    /\ plan' = <<a>>
    /\ asked' = asks
    /\ blanket' = FALSE
    /\ invoked' = <<a.id>>
    /\ outcomes' = <<out>>
    /\ log' = <<>>
    /\ results' = <<>>
    /\ activity' = lines
    /\ UNCHANGED <<rpc, env, request, requestNone, reply, strategies>>

\* gui.py: the Run button of an action in a group tab
GuiRunAction ==
    /\ surface = "idle"
    /\ \E i \in 1..Len(_ACTIONS) :
         LET a == _ACTIONS[i]
             run(asks) ==
                 \E out \in HandlerOutcomes(a.id) :
                     RunOne("gui_action", a, asks,
                            <<"Running action: " \o a.name>>
                            \o (IF out = "text" THEN <<ResultText(a.id)>> ELSE <<>>)
                            \o (IF out = "raise"
                                THEN <<"Action failed: " \o ErrorText(a.id)>>
                                ELSE <<"Action completed: " \o a.name>>),
                            out)
         IN  IF a.dangerous
             THEN \E answer \in BOOLEAN :
                    IF ~answer
                    THEN Returned("gui_action", <<Ask(a.id, FALSE)>>, <<>>)
                    ELSE run(<<Ask(a.id, TRUE)>>)
             ELSE run(<<>>)
    /\ UNCHANGED <<_ACTIONS, catalogVars, cliPc, privacyVars, executorVars, profileVars, monitorVars>>

GuiGroups == {"cleanup", "health", "network", "tools", "privacy"}

\* gui.py: a group tab is filled from get_actions_by_group
GuiBuildGroupTab ==
    /\ surface = "idle"
    /\ \E group \in GuiGroups :
         LET actions == get_actions_by_group(_ACTIONS, group)
         IN  Returned("gui_tab", <<>>,
                      IF actions = <<>>
                      THEN <<"No actions registered for this group.">>
                      ELSE [i \in 1..Len(actions) |-> actions[i].name])
    /\ UNCHANGED <<_ACTIONS, catalogVars, cliPc, privacyVars, executorVars, profileVars, monitorVars>>

FullSteps ==
    <<[id |-> "cleanup_recommended", label |-> "Recommended Cleanup"],
      [id |-> "health_full", label |-> "Full Health Check"],
      [id |-> "privacy_recommended", label |-> "Recommended Privacy Profile"],
      [id |-> "network_reset", label |-> "Network Reset"]>>

FM == "[Full Maintenance] "

\* "for action_id, label in steps" of _run_full_maintenance
RECURSIVE FullLoop(_, _, _, _)
FullLoop(A, steps, outs, i) ==
    IF i > Len(steps) THEN [lines |-> <<>>, invoked |-> <<>>, acts |-> <<>>]
    ELSE LET st == steps[i]
             rest == FullLoop(A, steps, outs, i + 1)
         IN  IF ~HasId(A, st.id)
             THEN [lines |-> <<FM \o "Action '" \o st.id \o "' not found.">>
                                \o rest.lines,
                   invoked |-> rest.invoked,
                   acts |-> rest.acts]
             ELSE LET line == IF outs[i] = "text"
                              THEN FM \o st.label \o ": " \o ResultText(st.id)
                              ELSE IF outs[i] = "none"
                              THEN FM \o st.label \o ": completed."
                              ELSE FM \o st.label \o " failed: " \o ErrorText(st.id)
                  IN  [lines |-> <<FM \o "Running: " \o st.label, line>> \o rest.lines,
                       invoked |-> <<st.id>> \o rest.invoked,
                       acts |-> <<get_action_by_id(A, st.id)>> \o rest.acts]

\* gui.py: the Full Maintenance button
GuiFullMaintenance ==
    /\ surface = "idle"
    /\ \E answer \in BOOLEAN :
         IF ~answer
         THEN Returned("gui_full", <<Ask("Full Maintenance", FALSE)>>, <<>>)
         ELSE \E outs \in OutcomesOf(FullSteps) :
                LET r == FullLoop(_ACTIONS, FullSteps, outs, 1)
                IN  /\ surface' = "gui_full"
                    /\ plan' = r.acts
                    /\ asked' = <<Ask("Full Maintenance", TRUE)>>
                    /\ blanket' = TRUE
                    /\ invoked' = r.invoked
                    /\ outcomes' = outs
                    /\ log' = <<>>
                    /\ results' = <<>>
                    /\ activity' = <<FM \o "Starting full maintenance sequence...">>
                                      \o r.lines
                                      \o <<FM \o "Sequence completed.">>
                    /\ UNCHANGED <<rpc, env, request, requestNone, reply, strategies>>
    /\ UNCHANGED <<_ACTIONS, catalogVars, cliPc, privacyVars, executorVars, profileVars, monitorVars>>

TrayMenu ==
    {[id |-> "cleanup_recommended", label |-> "Recommended Cleanup"],
     [id |-> "health_full", label |-> "Full Health Check"],
     [id |-> "network_reset", label |-> "Network Reset"],
     [id |-> "privacy_recommended", label |-> "Recommended Privacy Profile"]}

\* a menu item as a bug would have it: the action is popped from the registry
TrayRunActionPop ==
    /\ surface = "idle"
    /\ \E item \in TrayMenu :
         IF ~HasId(_ACTIONS, item.id)
         THEN Returned("tray", <<>>,
                       <<"Action Not Found: Action '" \o item.label \o "' not found.">>)
         ELSE LET a == get_action_by_id(_ACTIONS, item.id)
              IN  \E out \in HandlerOutcomes(a.id) :
                     RunOne("tray", a, <<>>,
                            IF out = "raise"
                            THEN <<"Action Failed: " \o item.label \o " failed:\n"
                                      \o ErrorText(a.id)>>
                            ELSE <<item.label \o " finished: "
                                      \o (IF out = "text" THEN ResultText(a.id)
                                          ELSE "Action completed successfully.")>>,
                            out)
    /\ LET Keep(x) == x.id # invoked'[1]
       IN  _ACTIONS' = SelectSeq(_ACTIONS, Keep)
    /\ UNCHANGED <<catalogVars, cliPc, privacyVars, executorVars, profileVars, monitorVars>>

\* tray_agent.py: a menu item, run by _run_action_in_thread
TrayRunAction ==
    /\ surface = "idle"
    /\ \E item \in TrayMenu :
         IF ~HasId(_ACTIONS, item.id)
         THEN Returned("tray", <<>>,
                       <<"Action Not Found: Action '" \o item.label \o "' not found.">>)
         ELSE LET a == get_action_by_id(_ACTIONS, item.id)
              IN  \E out \in HandlerOutcomes(a.id) :
                     RunOne("tray", a, <<>>,
                            IF out = "raise"
                            THEN <<"Action Failed: " \o item.label \o " failed:\n"
                                      \o ErrorText(a.id)>>
                            ELSE <<item.label \o " finished: "
                                      \o (IF out = "text" THEN ResultText(a.id)
                                          ELSE "Action completed successfully.")>>,
                            out)
    /\ UNCHANGED <<_ACTIONS, catalogVars, cliPc, privacyVars, executorVars, profileVars, monitorVars>>

----------------------------------------------------------------------------
(* main.py: the CLI.                                                        *)

\* interpret_command_keyword: the id it looks up in ACTIONS, "" for None
interpret_command_keyword(text) ==
    LET t == lower(text)
    IN  IF Contains(t, "sfc") \/ Contains(t, "system file") THEN "run_sfc"
        ELSE IF Contains(t, "dism") \/ Contains(t, "restore health")
                \/ Contains(t, "image health")
        THEN "run_dism_health_restore"
        ELSE IF Contains(t, "chkdsk") \/ Contains(t, "check disk")
                \/ Contains(t, "disk check")
        THEN "run_chkdsk"
        ELSE IF Contains(t, "clean temp") \/ Contains(t, "temp files")
                \/ Contains(t, "temporary files")
        THEN "clean_temp"
        ELSE IF Contains(t, "prefetch") THEN "clean_prefetch"
        ELSE IF Contains(t, "software distribution")
                \/ Contains(t, "windows update cache")
        THEN "clean_software_distribution"
        ELSE IF Contains(t, "advanced") /\ Contains(t, "network") /\ Contains(t, "reset")
        THEN "network_reset_advanced"
        ELSE IF Contains(t, "network") /\ Contains(t, "reset")
        THEN "network_reset_basic"
        ELSE IF Contains(t, "task manager") THEN "open_task_manager"
        ELSE IF Contains(t, "device manager") THEN "open_device_manager"
        ELSE IF Contains(t, "services") THEN "open_services"
        ELSE IF Contains(t, "system restore") \/ Contains(t, "restore point")
        THEN "open_system_restore"
        ELSE IF Contains(t, "privacy") \/ Contains(t, "telemetry")
                \/ Contains(t, "tracking")
        THEN IF Contains(t, "strict") \/ Contains(t, "lock down")
                \/ Contains(t, "lockdown") \/ Contains(t, "maximum")
                \/ Contains(t, "paranoid")
             THEN "privacy_strict"
             ELSE IF Contains(t, "restore") \/ Contains(t, "default")
                     \/ Contains(t, "defaults") \/ Contains(t, "undo")
             THEN "privacy_restore_defaults"
             ELSE "privacy_recommended"
        ELSE ""

\* ', '.join(action_names): the items are Action objects, not str, so the
\* join raises TypeError on its first item
PlanJoinRaises(action_names) == action_names # <<>>

CliInputs ==
    {"", "exit", "QUIT", "help", "commands", "hello", "reset network",
     "lock down telemetry", "my wifi and dns are broken"}

\* the process ends: sys.exit(0), or an exception nothing catches
CliEnds(pc, lines) ==
    /\ surface' = "cli"
    /\ cliPc' = pc
    /\ asked' = <<>>
    /\ blanket' = FALSE
    /\ invoked' = <<>>
    /\ outcomes' = <<>>
    /\ log' = <<>>
    /\ results' = <<>>
    /\ activity' = lines

\* the single action of the keyword fallback branch of main()
CliFallback(user) ==
    LET aid == interpret_command_keyword(user)
    IN  IF aid = "" \/ ~HasId(_ACTIONS, aid)
        THEN /\ Returned("cli", <<>>,
                  <<"I couldn't understand that yet. Try rephrasing or type 'help'.">>)
             /\ UNCHANGED cliPc
        ELSE LET a == get_action_by_id(_ACTIONS, aid)
                 head == <<"[Fallback] Selected: " \o a.name, a.description>>
                 run(asks) ==
                    \E out \in HandlerOutcomes(a.id) :
                        /\ surface' = "cli"
                        /\ asked' = asks
                        /\ blanket' = FALSE
                        /\ invoked' = <<a.id>>
                        /\ outcomes' = <<out>>
                        /\ log' = <<Event(a.name, "START", "Fallback keyword interpreter."),
                                    IF out = "raise"
                                    THEN Event(a.name, "ERROR", ErrorText(a.id))
                                    ELSE Event(a.name, "SUCCESS", "")>>
                        /\ results' = <<>>
                        /\ activity' = head \o
                              (IF out = "raise"
                               THEN <<"[ERROR] Action '" \o a.name \o "' failed: "
                                         \o ErrorText(a.id)>>
                               ELSE <<>>)
                        /\ UNCHANGED <<rpc, env, request, requestNone, reply, strategies, plan, cliPc>>
             IN  IF a.dangerous
                 THEN \E answer \in BOOLEAN :
                        IF ~answer
                        THEN /\ surface' = "cli"
                             /\ asked' = <<Ask(a.id, FALSE)>>
                             /\ blanket' = FALSE
                             /\ invoked' = <<>>
                             /\ outcomes' = <<>>
                             /\ log' = <<Event(a.name, "SKIP",
                                      "User declined dangerous action (fallback).")>>
                             /\ results' = <<>>
                             /\ activity' = head \o <<"[SKIP] " \o a.name>>
                             /\ UNCHANGED <<rpc, env, request, requestNone, reply, strategies, plan, cliPc>>
                        ELSE run(<<Ask(a.id, TRUE)>>)
                 ELSE run(<<>>)

\* main(): one turn of "while True", from the prompt to the next prompt
CliLine ==
    /\ surface = "idle"
    /\ cliPc = "prompt"
    /\ \E eof \in BOOLEAN : \E raw \in CliInputs :
         IF eof
         THEN /\ CliEnds("exited", <<"Exiting...">>)
              /\ UNCHANGED <<rpc, env, request, requestNone, reply, strategies, plan>>
         ELSE LET user == strip(raw)
              IN  IF user = ""
                  THEN Returned("cli", <<>>, <<>>) /\ UNCHANGED cliPc
                  ELSE IF lower(user) \in {"exit", "quit"}
                  THEN /\ CliEnds("exited", <<"Goodbye.">>)
                       /\ UNCHANGED <<rpc, env, request, requestNone, reply, strategies, plan>>
                  ELSE IF lower(user) \in {"help", "commands"}
                  THEN Returned("cli", <<>>, <<"help">>) /\ UNCHANGED cliPc
                  ELSE \E e \in SurfaceEnvs : \E rp \in SurfaceRepliesOf(e) :
                         LET action_names ==
                                 choose_actions_for_request(_ACTIONS, e, Str(user), rp)
                         IN  IF action_names # <<>>
                             THEN \* the print of the plan raises, outside any
                                  \* try: the loop over the steps is never reached
                                  /\ PlanJoinRaises(action_names)
                                  /\ CliEnds("crashed", <<>>)
                                  /\ env' = e
                                  /\ request' = user
                                  /\ requestNone' = FALSE
                                  /\ reply' = rp
                                  /\ strategies' =
                                        ResolveCall(_ACTIONS, e, Str(user), rp).calls
                                  /\ plan' = action_names
                                  /\ UNCHANGED rpc
                             ELSE CliFallback(user)
    /\ UNCHANGED <<_ACTIONS, catalogVars, privacyVars, executorVars, profileVars, monitorVars>>

\* the surface is at rest again; the interaction's locals are gone
SurfaceReturn ==
    /\ surface # "idle"
    /\ surface' = "idle"
    /\ asked' = <<>>
    /\ blanket' = FALSE
    /\ invoked' = <<>>
    /\ outcomes' = <<>>
    /\ log' = <<>>
    /\ results' = <<>>
    /\ activity' = <<>>
    /\ env' = NoEnv
    /\ request' = ""
    /\ requestNone' = FALSE
    /\ reply' = NoReply
    /\ strategies' = <<>>
    /\ plan' = <<>>
    /\ UNCHANGED <<rpc, cliPc, _ACTIONS, catalogVars, privacyVars, executorVars, profileVars, monitorVars>>

NextSurface ==
    \/ GuiBuildGroupTab
    \/ GuiRunCommand
    \/ GuiQuickAction
    \/ GuiRunAction
    \/ GuiFullMaintenance
    \/ TrayRunAction
    \/ CliLine
    \/ SurfaceReturn

SpecSurface == Init /\ [][NextSurface]_vars

----------------------------------------------------------------------------
(* The executor on its own: interpret_command(request) over a registry     *)
(* that may hold plugin actions, with tool modules that may be missing or  *)
(* lack functions, and tools that fail.                                     *)

\* the plugins packages the executor runs over: the repository's, and one
\* with a plugin that registers
ExecutorPackages == {RepositoryPlugins, <<AllModules[5]>>}

\* what hasattr finds: everything; system_tools failed to import;
\* privacy_tools failed to import (no winreg); some functions are missing;
\* both modules failed to import
AvailSets ==
    {AllTools, PrivacyTools, SystemTools,
     AllTools \ {"cleanup_prefetch", "run_sfc_scan", "apply_strict_privacy_profile"},
     {}}

ExecutorTexts ==
    {"clean up", "run sfc and chkdsk", "open task manager and services",
     "privacy strict", "health check of the network", "hello"}

ExecutorReplies ==
    {ReplyRaises,
     ReplyArray(<<[isStr |-> TRUE, val |-> "cleanup_windows_update_cache"],
                  [isStr |-> TRUE, val |-> "net_diag"]>>),
     ReplyArray(<<[isStr |-> TRUE, val |-> "net_trace"],
                  [isStr |-> TRUE, val |-> "health_full"],
                  [isStr |-> TRUE, val |-> "cleanup_temp"]>>),
     ReplyArray(<<[isStr |-> TRUE, val |-> "cleanup_prefetch"],
                  [isStr |-> TRUE, val |-> "cleanup_prefetch"]>>)}

ExecutorRepliesOf(e) == IF _is_gemini_configured(e) THEN ExecutorReplies ELSE {NoReply}

InitExecutor ==
    /\ modules \in ExecutorPackages
    /\ _ACTIONS = Imported(modules).actions
    /\ warnings = Imported(modules).warnings
    /\ registered = Imported(modules).registered
    /\ phase = "ready"
    /\ pending = <<>>
    /\ midx = Len(modules) + 1
    /\ api = NoCall
    /\ InitRouter
    /\ InitSurface
    /\ InitPrivacy
    /\ avail \in AvailSets
    /\ behaviour = NoBehaviour
    /\ trace = <<>>
    /\ InitProfiles
    /\ InitMonitor

\* interpret_command(request): resolve, then run every step
InterpretCommand ==
    /\ surface = "idle"
    /\ \E e \in SurfaceEnvs, text \in ExecutorTexts :
         \E rp \in ExecutorRepliesOf(e) :
           \E rc \in {ResolveCall(_ACTIONS, e, Str(text), rp)} :
             \E b \in Behaviours(rc.actions, avail) :
               \E outs \in {[i \in 1..Len(rc.actions) |->
                                func(rc.actions[i], avail, b)]} :
                 \E r \in {interpret_command(rc.actions, outs)} :
                    /\ surface' = "executor"
                    /\ env' = e
                    /\ request' = text
                    /\ requestNone' = FALSE
                    /\ reply' = rp
                    /\ strategies' = rc.calls
                    /\ plan' = rc.actions
                    /\ asked' = <<>>
                    /\ blanket' = FALSE
                    /\ invoked' = r.invoked
                    /\ outcomes' = Kinds(outs)
                    /\ log' = r.log
                    /\ results' = r.results
                    /\ activity' = r.results
                    /\ behaviour' = b
                    /\ trace' = r.trace
    /\ UNCHANGED <<_ACTIONS, catalogVars, rpc, cliPc, avail, privacyVars, profileVars,
                   monitorVars>>

\* interpret_command has returned; its locals are gone
ExecutorReturn ==
    /\ surface = "executor"
    /\ surface' = "idle"
    /\ asked' = <<>>
    /\ blanket' = FALSE
    /\ invoked' = <<>>
    /\ outcomes' = <<>>
    /\ log' = <<>>
    /\ results' = <<>>
    /\ activity' = <<>>
    /\ env' = NoEnv
    /\ request' = ""
    /\ requestNone' = FALSE
    /\ reply' = NoReply
    /\ strategies' = <<>>
    /\ plan' = <<>>
    /\ behaviour' = NoBehaviour
    /\ trace' = <<>>
    /\ UNCHANGED <<_ACTIONS, catalogVars, rpc, cliPc, avail, privacyVars, profileVars,
                   monitorVars>>

NextExecutor == InterpretCommand \/ ExecutorReturn

SpecExecutor == InitExecutor /\ [][NextExecutor]_vars

----------------------------------------------------------------------------
(* Privacy profiles applied from the tray: every menu click starts a       *)
(* thread that runs apply_recommended_privacy_profile; threads interleave  *)
(* at each access to _BACKUP and to the registry.                           *)

Current(t) == _RECOMMENDED_SETTINGS[tidx[t]]

\* the tray starts a thread; _apply_settings reaches its first setting
StartApply(t) ==
    /\ tpc[t] = "idle"
    /\ applies < MaxApplies
    /\ applies' = applies + 1
    /\ tpc' = [tpc EXCEPT ![t] = "check"]
    /\ tidx' = [tidx EXCEPT ![t] = 1]
    /\ UNCHANGED <<registry, pristine, _BACKUP, toriginal>>
    /\ UNCHANGED <<_ACTIONS, catalogVars, routerVars, surfaceVars, executorVars, profileVars, monitorVars>>

\* _backup_setting: "if key in _BACKUP: return"
BackupCheck(t) ==
    /\ tpc[t] = "check"
    /\ tpc' = [tpc EXCEPT ![t] =
                 IF Current(t).key \in DOMAIN _BACKUP THEN "write" ELSE "read"]
    /\ UNCHANGED <<registry, pristine, _BACKUP, tidx, toriginal, applies>>
    /\ UNCHANGED <<_ACTIONS, catalogVars, routerVars, surfaceVars, executorVars, profileVars, monitorVars>>

\* _backup_setting: original = _read_reg_value(...)
BackupRead(t) ==
    /\ tpc[t] = "read"
    /\ toriginal' = [toriginal EXCEPT ![t] = registry[Current(t).key]]
    /\ tpc' = [tpc EXCEPT ![t] = "store"]
    /\ UNCHANGED <<registry, pristine, _BACKUP, tidx, applies>>
    /\ UNCHANGED <<_ACTIONS, catalogVars, routerVars, surfaceVars, executorVars, profileVars, monitorVars>>

\* _backup_setting: _BACKUP[key] = original
BackupStore(t) ==
    /\ tpc[t] = "store"
    /\ _BACKUP' = BackupPut(_BACKUP, Current(t).key, toriginal[t])
    /\ toriginal' = [toriginal EXCEPT ![t] = NoValue]
    /\ tpc' = [tpc EXCEPT ![t] = "write"]
    /\ UNCHANGED <<registry, pristine, tidx, applies>>
    /\ UNCHANGED <<_ACTIONS, catalogVars, routerVars, surfaceVars, executorVars, profileVars, monitorVars>>

\* _apply_setting: _write_reg_value succeeds or raises; either way
\* _apply_settings goes on to the next setting
ApplyWrite(t) ==
    /\ tpc[t] = "write"
    /\ \E ok \in BOOLEAN :
         registry' = IF ok
                     THEN [registry EXCEPT ![Current(t).key] = Current(t).value]
                     ELSE registry
    /\ IF tidx[t] < Len(_RECOMMENDED_SETTINGS)
       THEN /\ tidx' = [tidx EXCEPT ![t] = tidx[t] + 1]
            /\ tpc' = [tpc EXCEPT ![t] = "check"]
       ELSE /\ tidx' = [tidx EXCEPT ![t] = 0]
            /\ tpc' = [tpc EXCEPT ![t] = "idle"]
    /\ UNCHANGED <<pristine, _BACKUP, toriginal, applies>>
    /\ UNCHANGED <<_ACTIONS, catalogVars, routerVars, surfaceVars, executorVars, profileVars, monitorVars>>

NextPrivacy ==
    \E t \in Threads :
        \/ StartApply(t)
        \/ BackupCheck(t)
        \/ BackupRead(t)
        \/ BackupStore(t)
        \/ ApplyWrite(t)

SpecPrivacy == InitTray /\ [][NextPrivacy]_vars

----------------------------------------------------------------------------
(* The privacy tools called one after the other (the GUI and the CLI run   *)
(* one action at a time): both profiles and the restore, over registry     *)
(* values of both types, with writes that the registry may refuse.         *)

\* a REG_SZ value ("Allow", "Deny"): QueryValueEx gives a string and int(v)
\* raises ValueError
Sz == -2

\* the key itself does not exist: OpenKey raises FileNotFoundError
NoKey == -3

Absent(v) == v \in {NoValue, NoKey}

Webcam == "ConsentStore\\webcam\\Value"
Microphone == "ConsentStore\\microphone\\Value"

_STRICT_SETTINGS ==
    _RECOMMENDED_SETTINGS \o
    <<Setting("DataCollection\\AllowTelemetry", 0),
      Setting("Windows Error Reporting\\Disabled", 1),
      Setting(Webcam, 0),
      Setting(Microphone, 0)>>

\* RegSetting.value_type: REG_DWORD unless given
value_type(key) == IF key \in {Webcam, Microphone} THEN "REG_SZ" ELSE "REG_DWORD"

StrictKeys == {_STRICT_SETTINGS[i].key : i \in 1..Len(_STRICT_SETTINGS)}

\* the settings under HKEY_LOCAL_MACHINE; the others are under HKEY_CURRENT_USER
HKLM == StrictKeys \ {_RECOMMENDED_SETTINGS[i].key : i \in 1..4}

\* the keys the registry refuses to open for writing during one call: none,
\* or (a process that is not elevated) those of HKEY_LOCAL_MACHINE
DeniedSets == {{}, HKLM}

\* the registries a process can start over: the DWORD settings absent or
\* set, the consent store values strings or absent
InitRegistries ==
    {[k \in StrictKeys |-> IF value_type(k) = "REG_SZ" THEN Sz ELSE NoValue],
     [k \in StrictKeys |-> IF value_type(k) = "REG_SZ" THEN Sz
                           ELSE IF k \in HKLM THEN NoKey ELSE 1],
     [k \in StrictKeys |-> IF k = Webcam THEN Sz
                           ELSE IF k = Microphone THEN NoKey
                           ELSE IF k = "BackgroundAccessApplications\\GlobalUserDisabled"
                                     \/ k = "Windows Error Reporting\\Disabled"
                           THEN 1 ELSE 0],
     [k \in StrictKeys |-> NoKey]}

\* str() of what _read_reg_value returned, and of a setting's value
Show(v) == IF v = NoValue THEN "None" ELSE IF v = 0 THEN "0" ELSE "1"

\* _read_reg_value: int(v), or None when the key or the value is missing or
\* anything raises
_read_reg_value(reg, key) ==
    IF Absent(reg[key]) \/ reg[key] = Sz THEN NoValue ELSE reg[key]

\* the state the privacy tools work on
PrivacyState(reg, backup, count, ok) ==
    [registry |-> reg, backup |-> backup, stores |-> count, ok |-> ok]

\* _backup_setting without "if key in _BACKUP: return"
_backup_setting_always(ps, s) ==
    [ps EXCEPT !.backup = BackupPut(@, s.key, _read_reg_value(ps.registry, s.key)),
               !.stores = BackupPut(@, s.key,
                                    (IF s.key \in DOMAIN @ THEN @[s.key] ELSE 0) + 1)]

_backup_setting(ps, s) ==
    IF s.key \in DOMAIN ps.backup THEN ps
    ELSE [ps EXCEPT !.backup = BackupPut(@, s.key, _read_reg_value(ps.registry, s.key)),
                    !.stores = BackupPut(@, s.key,
                                         (IF s.key \in DOMAIN @ THEN @[s.key] ELSE 0) + 1)]

\* str(e) of what CreateKey / SetValueEx raised, "" when the write was done:
\* SetValueEx converts the int 0 for REG_SZ and raises ValueError
WriteError(s, denied) ==
    IF s.key \in denied THEN "[WinError 5] Access is denied"
    ELSE IF value_type(s.key) = "REG_SZ"
    THEN "Could not convert the data to the specified type."
    ELSE ""

\* _write_reg_value: the RuntimeError's text
WriteFailed(s, e) ==
    "Failed to write registry: " \o s.key \o " -> " \o Show(s.value) \o " (" \o e \o ")"

\* _apply_setting inside the try of _apply_settings: the state after it and
\* the line for the summary ("->" stands for the arrow of the source)
_apply_setting(ps, s, denied) ==
    LET saved == _backup_setting(ps, s)
        before == _read_reg_value(saved.registry, s.key)
        e == WriteError(s, denied)
        written == [saved EXCEPT !.registry[s.key] = s.value]
    IN  IF e # ""
        THEN [ps |-> [saved EXCEPT !.ok = FALSE],
              message |-> "ERROR: " \o s.key \o ": " \o WriteFailed(s, e)]
        ELSE [ps |-> written,
              message |-> s.key \o ": " \o Show(before) \o " -> "
                          \o Show(_read_reg_value(written.registry, s.key))]

\* "for s in settings: lines.append(_apply_setting(...))": one iteration is
\* finished, its line appended, before the next one starts from its result
RECURSIVE _apply_settings_from(_, _, _)
_apply_settings_from(done, settings, denied) ==
    IF settings = <<>> THEN done
    ELSE CHOOSE r \in {_apply_settings_from(next, Tail(settings), denied) :
                        next \in {LET one == _apply_setting(done.ps, Head(settings), denied)
                                  IN  [ps |-> one.ps,
                                       messages |-> Append(done.messages, one.message)]}} : TRUE

_apply_settings(ps, settings, denied) ==
    _apply_settings_from([ps |-> ps, messages |-> <<>>], settings, denied)

apply_recommended_privacy_profile(ps, denied) ==
    LET r == _apply_settings(ps, _RECOMMENDED_SETTINGS, denied)
    IN  [ps |-> r.ps,
         msg |-> "Recommended privacy profile applied.\n\n" \o JoinLines(r.messages)]

apply_strict_privacy_profile(ps, denied) ==
    LET r == _apply_settings(ps, _STRICT_SETTINGS, denied)
    IN  [ps |-> r.ps,
         msg |-> "Strict privacy profile applied.\n"
                 \o "(Some changes require reboot to take effect.)\n\n"
                 \o JoinLines(r.messages)]

\* restore of one entry that leaves a value that did not exist in place
RestoreOneKeep(ps, key, denied) ==
    IF ps.backup[key] = NoValue
    THEN [ps |-> ps, message |-> key \o ": already missing"]
    ELSE [ps |-> [ps EXCEPT !.registry[key] = ps.backup[key]],
          message |-> key \o ": restored to " \o Show(ps.backup[key])]

\* restore_privacy_defaults, one entry of _BACKUP.items()
RestoreOne(ps, key, denied) ==
    LET original == ps.backup[key]
        failed(e) == [ps |-> [ps EXCEPT !.ok = FALSE],
                      message |-> "ERROR restoring " \o key \o ": " \o e]
    IN  IF original = NoValue
        THEN IF ps.registry[key] = NoKey
             THEN failed("[WinError 2] The system cannot find the file specified")
             ELSE IF key \in denied THEN failed("[WinError 5] Access is denied")
             ELSE IF ps.registry[key] = NoValue
             THEN [ps |-> ps, message |-> key \o ": already missing"]
             ELSE [ps |-> [ps EXCEPT !.registry[key] = NoValue],
                   message |-> key \o ": deleted (default)"]
        ELSE IF key \in denied THEN failed("[WinError 5] Access is denied")
             ELSE [ps |-> [ps EXCEPT !.registry[key] = original],
                   message |-> key \o ": restored to " \o Show(original)]

\* "for (root, path, name), original_value in _BACKUP.items()": a dict keeps
\* insertion order, and every profile inserts in the order of _STRICT_SETTINGS
RECURSIVE RestoreLoop(_, _, _)
RestoreLoop(done, settings, denied) ==
    IF settings = <<>> THEN done
    ELSE IF Head(settings).key \notin DOMAIN done.ps.backup
    THEN RestoreLoop(done, Tail(settings), denied)
    ELSE CHOOSE r \in {RestoreLoop(next, Tail(settings), denied) :
                        next \in {LET one == RestoreOne(done.ps, Head(settings).key, denied)
                                  IN  [ps |-> one.ps,
                                       messages |-> Append(done.messages, one.message)]}} : TRUE

restore_privacy_defaults(ps, denied) ==
    LET r == RestoreLoop([ps |-> ps, messages |-> <<>>], _STRICT_SETTINGS, denied)
    IN  [ps |-> r.ps,
         msg |-> IF r.messages = <<>>
                 THEN "No previous privacy settings to restore."
                 ELSE "Privacy defaults restored.\n\n" \o JoinLines(r.messages)]

\* the process starts: nothing backed up, no tool called yet
InitSequential ==
    /\ InitReady
    /\ InitRouter
    /\ InitSurface
    /\ registry \in InitRegistries
    /\ pristine = registry
    /\ _BACKUP = NoBackup
    /\ tpc = [t \in Threads |-> "idle"]
    /\ tidx = [t \in Threads |-> 0]
    /\ toriginal = [t \in Threads |-> NoValue]
    /\ applies = 0
    /\ InitTools
    /\ InitProfiles
    /\ InitMonitor

\* one call of a privacy tool, from its first line to its return
ProfileStep(op, r, touched) ==
    /\ registry' = r.ps.registry
    /\ _BACKUP' = r.ps.backup
    /\ stores' = r.ps.stores
    /\ writesOk' = r.ps.ok
    /\ lastOp' = ProfileCall(op, r.msg)
    /\ firstRead' = [k \in DOMAIN firstRead \cup touched |->
                        IF k \in DOMAIN firstRead THEN firstRead[k]
                        ELSE _read_reg_value(registry, k)]
    /\ UNCHANGED <<pristine, tpc, tidx, toriginal>>
    /\ UNCHANGED <<_ACTIONS, catalogVars, routerVars, surfaceVars, executorVars, monitorVars>>

ApplyRecommended ==
    /\ applies < MaxApplies
    /\ applies' = applies + 1
    /\ \E denied \in DeniedSets :
         ProfileStep("apply_recommended_privacy_profile",
                     apply_recommended_privacy_profile(
                         PrivacyState(registry, _BACKUP, stores, writesOk), denied),
                     SettingKeys)

ApplyStrict ==
    /\ applies < MaxApplies
    /\ applies' = applies + 1
    /\ \E denied \in DeniedSets :
         ProfileStep("apply_strict_privacy_profile",
                     apply_strict_privacy_profile(
                         PrivacyState(registry, _BACKUP, stores, writesOk), denied),
                     StrictKeys)

RestoreDefaults ==
    /\ applies' = applies
    /\ \E denied \in DeniedSets :
         ProfileStep("restore_privacy_defaults",
                     restore_privacy_defaults(
                         PrivacyState(registry, _BACKUP, stores, writesOk), denied),
                     {})

NextProfiles == ApplyRecommended \/ ApplyStrict \/ RestoreDefaults

SpecProfiles == InitSequential /\ [][NextProfiles]_vars

----------------------------------------------------------------------------
(* The tray's health monitor: monitor() of _start_health_monitor, one       *)
(* action per turn of its "while True" loop.  clock is the wall clock; a    *)
(* notification is a MessageBoxW, which returns when the user closes it.    *)

CPU_WARN == 90
RAM_WARN == 90
DISK_WARN == 95
CHECK_INTERVAL == 60
MIN_NOTIFY_INTERVAL == 300

\* the monitor is followed for this many turns of its loop
MaxChecks == 3

\* what get_system_info returns in a turn: percentages; cpu is -1 when
\* float(info.cpu_percent) raises
Readings ==
    {Reading(TRUE, 89, 89, <<40, 94>>),
     Reading(TRUE, 90, 95, <<94>>),
     Reading(TRUE, 10, 90, <<>>),
     Reading(TRUE, 0 - 1, 20, <<30, 95>>),
     Reading(TRUE, 100, 100, <<99, 96>>)}

\* how long a message box stays open, in seconds
DialogTimes == {0, 240}

\* "if worst is None or d.percent_used > worst.percent_used: worst = d";
\* -1 stands for None
RECURSIVE Worst(_, _)
Worst(disks, worst) ==
    IF disks = <<>> THEN worst
    ELSE Worst(Tail(disks),
               IF worst = 0 - 1 \/ Head(disks) > worst THEN Head(disks) ELSE worst)

\* a call of _show_message: the type, the wall clock at the call, the "now"
\* of the turn, the measured value, the turn
Notification(type, at, now, value, check) ==
    [type |-> type, at |-> at, now |-> now, value |-> value, check |-> check]

\* "if value >= WARN and now - last_notify >= MIN_NOTIFY_INTERVAL"
Due(value, warn, now, last) ==
    value >= warn /\ now - last >= MIN_NOTIFY_INTERVAL

\* a turn in which get_system_info returned rd; dc, dr and dd are the times
\* the three message boxes stay open if they are shown
MonitorCheck ==
    /\ checks < MaxChecks
    /\ \E rd \in Readings, dc \in DialogTimes, dr \in DialogTimes, dd \in DialogTimes :
         LET now == clock
             worst == Worst(rd.disks, 0 - 1)
             cpuDue == Due(rd.cpu, CPU_WARN, now, last_cpu_notify)
             ramDue == Due(rd.ram, RAM_WARN, now, last_ram_notify)
             diskDue == worst # 0 - 1 /\ Due(worst, DISK_WARN, now, last_disk_notify)
             ramAt == now + (IF cpuDue THEN dc ELSE 0)
             diskAt == ramAt + (IF ramDue THEN dr ELSE 0)
             sleepAt == diskAt + (IF diskDue THEN dd ELSE 0)
             k == checks + 1
         IN  \* a message box that is not shown takes no time
             /\ (~cpuDue => dc = 0) /\ (~ramDue => dr = 0) /\ (~diskDue => dd = 0)
             /\ reading' = rd
             /\ last_cpu_notify' = IF cpuDue THEN now ELSE last_cpu_notify
             /\ last_ram_notify' = IF ramDue THEN now ELSE last_ram_notify
             /\ last_disk_notify' = IF diskDue THEN now ELSE last_disk_notify
             /\ issued' = issued
                    \o (IF cpuDue THEN <<Notification("cpu", now, now, rd.cpu, k)>>
                        ELSE <<>>)
                    \o (IF ramDue THEN <<Notification("ram", ramAt, now, rd.ram, k)>>
                        ELSE <<>>)
                    \o (IF diskDue THEN <<Notification("disk", diskAt, now, worst, k)>>
                        ELSE <<>>)
             /\ clock' = sleepAt + CHECK_INTERVAL
             /\ checks' = k
    /\ UNCHANGED <<_ACTIONS, catalogVars, routerVars, surfaceVars, privacyVars,
                   executorVars, profileVars>>

\* a turn in which get_system_info raised: log, sleep, continue
MonitorSkip ==
    /\ checks < MaxChecks
    /\ reading' = NoReading
    /\ clock' = clock + CHECK_INTERVAL
    /\ checks' = checks + 1
    /\ UNCHANGED <<last_cpu_notify, last_ram_notify, last_disk_notify, issued>>
    /\ UNCHANGED <<_ACTIONS, catalogVars, routerVars, surfaceVars, privacyVars,
                   executorVars, profileVars>>

NextMonitor == MonitorCheck \/ MonitorSkip

SpecMonitor == Init /\ [][NextMonitor]_vars

----------------------------------------------------------------------------
(* Properties of the privacy backup.                                        *)

\* C3: when privacy-profile applications run concurrently in one process,
\* the backup record of each registry key holds the value the key had before
\* any call wrote to it, never a value one of the calls wrote.
C3_BackupFirstObserved ==
    \A k \in DOMAIN _BACKUP : _BACKUP[k] = pristine[k]

----------------------------------------------------------------------------
(* Properties of the surfaces.                                              *)

Confirmed(aid) ==
    blanket \/ \E j \in 1..Len(asked) : asked[j] = Ask(aid, TRUE)

Times(seq, x) == Cardinality({i \in 1..Len(seq) : seq[i] = x})

\* C1: on every surface the handler of a danger-flagged action is invoked
\* only after the user was asked for confirmation and accepted it in the
\* same interaction.
C1_DangerousConfirmed ==
    \A i \in 1..Len(invoked) :
        get_action_by_id(_ACTIONS, invoked[i]).dangerous => Confirmed(invoked[i])

\* the surfaces that execute a multi-step plan, once they have run it
RanPlan ==
    \/ surface \in {"gui_command", "gui_quick"} /\ plan # <<>>
    \/ surface = "gui_full" /\ blanket

\* the lines in which the outcome of each step is looked for
Summary == IF surface = "gui_full" THEN activity ELSE results

\* step i's text is in line k: the failure text of a failed step, the
\* success text of any other
StepShown(i, k) ==
    LET aid == plan[i].id
    IN  IF outcomes[i] = "raise" THEN Contains(Summary[k], ErrorText(aid))
        ELSE IF outcomes[i] = "text" THEN Contains(Summary[k], ResultText(aid))
        ELSE Contains(Summary[k], "completed.")

\* C4: a multi-step plan (interpret_command, Full Maintenance) invokes every
\* step's handler exactly once in plan order whatever failed before, no
\* failure leaves the loop, and the combined summary holds each failed
\* step's failure text and every other step's success text in plan order.
C4_PlanRunsToCompletion ==
    RanPlan =>
        /\ invoked = Ids(plan)
        /\ Len(outcomes) = Len(plan)
        /\ \E f \in [1..Len(plan) -> 1..Len(Summary)] :
              /\ \A i, j \in 1..Len(plan) : i < j => f[i] < f[j]
              /\ \A i \in 1..Len(plan) : StepShown(i, f[i])
        /\ surface = "gui_full" =>
              activity[Len(activity)] = FM \o "Sequence completed."
        /\ surface # "gui_full" => Len(results) = Len(plan)

C4_Witness ==
    /\ surface = "gui_quick"
    /\ Len(plan) = 4
    /\ outcomes = <<"text", "raise", "text", "text">>
    /\ Len(invoked) = 4
    /\ Contains(results[2], "ERROR - ")
    /\ Contains(results[4], ResultText(plan[4].id))

\* C5: in the CLI a line other than help/exit/quit with a non-empty plan has
\* every step processed in plan order (a declined dangerous step logged SKIP,
\* any other step's handler invoked once with START then SUCCESS or ERROR)
\* and the loop is back at the prompt, the process still running.
C5_CliProcessesPlan ==
    (surface = "cli" /\ plan # <<>>) =>
        /\ cliPc = "prompt"
        /\ \A i \in 1..Len(plan) :
              LET a == plan[i]
                  has(status) == \E k \in 1..Len(log) :
                                    log[k].name = a.name /\ log[k].status = status
              IN  IF \E j \in 1..Len(asked) : asked[j] = Ask(a.id, FALSE)
                  THEN has("SKIP") /\ Times(invoked, a.id) = 0
                  ELSE /\ Times(invoked, a.id) = Times(Ids(plan), a.id)
                       /\ has("START")
                       /\ has("SUCCESS") \/ has("ERROR")
                       /\ a.dangerous => Confirmed(a.id)

\* C18: once the registration phase has completed, no operation a user
\* triggers (resolving a request, executing a plan or a single action,
\* listing, lookup) adds, removes or replaces an entry of the catalog.
C18_CatalogReadOnly == [][_ACTIONS' = _ACTIONS]_vars

C18_Witness ==
    /\ surface = "tray"
    /\ invoked = <<"network_reset">>
    /\ _ACTIONS = StartupActions

\* C19: when the user declines a confirmation on any surface, no handler is
\* invoked, the outcome is logged as a SKIP lifecycle event and not as an
\* ERROR, and the surface goes on.
C19_DeclineIsSkip ==
    \A j \in 1..Len(asked) :
        ~asked[j].answer =>
            /\ invoked = <<>>
            /\ \E k \in 1..Len(log) : log[k].status = "SKIP"
            /\ \A k \in 1..Len(log) : log[k].status # "ERROR"
            /\ cliPc = "prompt"

----------------------------------------------------------------------------
(* Properties of the registry.                                              *)

RaisesIn(body) == \E i \in 1..Len(body) : body[i].op = "raise"

Private(m) == CharAt(m.name, 1) = "_"

\* an extension that imports and whose register returns
WellBehaved(m) ==
    ~Private(m) /\ m.importOk /\ m.hasRegister /\ ~RaisesIn(m.body)

\* an extension whose import or whose register raises
Failing(m) == ~Private(m) /\ (~m.importOk \/ RaisesIn(m.body))

IdSet(seq) == {seq[k].id : k \in 1..Len(seq)}

\* C14: a failure to import an extension, or a failure raised by its
\* register, is isolated: every module is still visited, the actions of
\* every well-behaved extension are in list_all(), every built-in is still
\* registered, the failure is logged.
C14_PluginFailureIsolated ==
    (phase = "ready") =>
        LET listed == IdSet(list_actions(_ACTIONS))
        IN
        /\ midx = Len(modules) + 1
        /\ \A i \in 1..Len(BuiltinActions) : BuiltinActions[i].id \in listed
        /\ \A j \in 1..Len(modules) :
              /\ WellBehaved(modules[j]) =>
                    \A k \in 1..Len(modules[j].body) :
                        modules[j].body[k].action.id \in listed
              /\ Failing(modules[j]) =>
                    \E w \in 1..Len(warnings) :
                        warnings[w] \in {ImportFailed(modules[j]),
                                         RegisterFailed(modules[j])}

C14_Witness ==
    /\ phase = "ready"
    /\ Len(modules) = 2
    /\ ~modules[1].importOk
    /\ modules[2].name = "net_tools"
    /\ {"net_diag", "net_trace"} \subseteq IdSet(list_actions(_ACTIONS))

\* C15: registering an action under an id that exists replaces the entry:
\* list_all() then has exactly one entry for the id, with the new name,
\* description, group, danger flag and handler, and a warning was logged.
C15_RegisterReplaces ==
    (api.op = "register" /\ api.found) =>
        LET all == list_actions(_ACTIONS)
        IN  /\ Cardinality({k \in 1..Len(all) : all[k].id = api.id}) = 1
            /\ \A k \in 1..Len(all) : all[k].id = api.id => all[k] = api.action
            /\ warnings # <<>>
            /\ warnings[Len(warnings)] = Overwriting(api.id)

C15_Witness ==
    /\ api.op = "register" /\ api.found
    /\ api.id = "cleanup_temp"
    /\ Len(_ACTIONS) = Len(BuiltinActions)
    /\ get_action_by_id(_ACTIONS, "cleanup_temp") =
          Act("cleanup_temp", "temp sweep", "Replaces the built-in.",
              "cleanup", TRUE, "sweep")

\* C16: after any sequence of register calls, the lookup of a registered id
\* returns an Action whose id is the key, and the lookup of an id that was
\* never registered returns absent.
C16_LookupMatchesKey ==
    /\ \A aid \in registered :
          HasId(_ACTIONS, aid) /\ get_action_by_id(_ACTIONS, aid).id = aid
    /\ \A aid \in ProbeIds \ registered : ~HasId(_ACTIONS, aid)
    /\ (api.op = "lookup") =>
          /\ api.found <=> api.id \in registered
          /\ api.found => api.action.id = api.id

C16_Witness ==
    /\ api.op = "lookup" /\ api.found
    /\ api.id = "net_diag"
    /\ api.action.name = "Network Doctor"

C16_WitnessAbsent ==
    /\ api.op = "lookup" /\ ~api.found
    /\ api.id = "deep_cleanup"

\* C17: list_by_group(group) is exactly the registered actions of the group
\* ordered by name, case-insensitively; list_all() is every registered
\* action exactly once, ordered by group and within a group by name,
\* case-insensitively.
C17_ListingsOrdered ==
    LET r == api.result
        once(a) == Cardinality({i \in 1..Len(r) : r[i] = a}) = 1
        byName(i) == ~StrLess(lower(r[i + 1].name), lower(r[i].name))
    IN  /\ (api.op = "list_by_group") =>
              /\ \A i \in 1..Len(r) : r[i].group = api.id
              /\ \A k \in 1..Len(_ACTIONS) :
                    _ACTIONS[k].group = api.id => once(_ACTIONS[k])
              /\ Len(r) = Cardinality({k \in 1..Len(_ACTIONS) :
                                          _ACTIONS[k].group = api.id})
              /\ \A i \in 1..(Len(r) - 1) : byName(i)
        /\ (api.op = "list_all") =>
              /\ Len(r) = Len(_ACTIONS)
              /\ \A k \in 1..Len(_ACTIONS) : once(_ACTIONS[k])
              /\ \A i \in 1..(Len(r) - 1) :
                    \/ StrLess(r[i].group, r[i + 1].group)
                    \/ r[i].group = r[i + 1].group /\ byName(i)

C17_Witness ==
    /\ api.op = "list_all"
    /\ Len(api.result) = Len(BuiltinActions) + 2
    /\ \E i \in 1..(Len(api.result) - 1) :
          /\ api.result[i].name = "diagnose network"
          /\ api.result[i + 1].name = "Reset Network Stack"

----------------------------------------------------------------------------
(* Properties of the router.                                                *)

InPlan(aid) == \E i \in 1..Len(plan) : plan[i].id = aid

RemoteDisabled == ~_is_gemini_configured(env)

Resolved == rpc = "resolved"

\* C2: the plan returned by resolve holds each action id at most once and
\* only ids of the catalog, whatever the request and the remote reply; the
\* reply ["network_reset", "network_reset", "unknown_id"] gives a plan with
\* network_reset exactly once and without unknown_id.
C2_PlanDeduplicated ==
    Resolved =>
        /\ \A i, j \in 1..Len(plan) : i # j => plan[i].id # plan[j].id
        /\ \A i \in 1..Len(plan) : HasId(_ACTIONS, plan[i].id)
        /\ ~InPlan("unknown_id")

\* C6: with the remote strategy disabled, "lock down my privacy, maximum"
\* resolves to a plan with privacy_strict and without privacy_recommended.
C6_LockDownIsStrict ==
    (Resolved /\ RemoteDisabled /\ request = "lock down my privacy, maximum") =>
        (InPlan("privacy_strict") /\ ~InPlan("privacy_recommended"))

\* C7: with the remote strategy disabled, a privacy request with "default" or
\* "restore" and without "strict" resolves to privacy_restore_defaults and to
\* neither profile; one with "strict" gives privacy_strict; any other privacy
\* request gives privacy_recommended.
C7_PrivacyQualifiers ==
    LET text == lower(request)
        priv == Contains(text, "privacy")
        strict == Contains(text, "strict")
        undo == Contains(text, "default") \/ Contains(text, "restore")
    IN  (Resolved /\ RemoteDisabled /\ priv) =>
            /\ strict => InPlan("privacy_strict")
            /\ (undo /\ ~strict) =>
                  /\ InPlan("privacy_restore_defaults")
                  /\ ~InPlan("privacy_recommended")
                  /\ ~InPlan("privacy_strict")
            /\ (~undo /\ ~strict) => InPlan("privacy_recommended")

\* C8: in the keyword strategy a request with both "windows update" and
\* "cache" has cleanup_windows_update_cache as its cleanup action, not the
\* action of a bare "temp" or "cache" match.
C8_WindowsUpdateCacheWins ==
    LET text == lower(request)
    IN  (Resolved /\ RemoteDisabled
            /\ Contains(text, "windows update") /\ Contains(text, "cache")) =>
            /\ InPlan("cleanup_windows_update_cache")
            /\ \A i \in 1..Len(plan) :
                  plan[i].group = "cleanup" =>
                      plan[i].id = "cleanup_windows_update_cache"

\* C9: with the remote strategy disabled, a request with a generic cleanup
\* phrase resolves to a plan whose first element is cleanup_recommended and
\* which has no cleanup_temp, also when it mentions temp files or cache.
C9_GenericCleanupFirst ==
    (Resolved /\ RemoteDisabled
        /\ ContainsAny(lower(request),
                       {"cleanup", "clean up", "clean my pc", "junk", "space"})) =>
        /\ plan # <<>>
        /\ plan[1].id = "cleanup_recommended"
        /\ ~InPlan("cleanup_temp")

C9_Witness ==
    /\ Resolved /\ RemoteDisabled
    /\ request = "clean up my temp files and cache"
    /\ plan # <<>> /\ plan[1].id = "cleanup_recommended"

\* C10: with the remote strategy disabled, a request whose lowercased text
\* has a network keyword resolves to a plan with network_reset, whatever
\* other rules match.
C10_NetworkKeywordResets ==
    (Resolved /\ RemoteDisabled
        /\ ContainsAny(lower(request),
                       {"no internet", "network", "wifi", "ethernet", "dns",
                        "winsock", "reset network"})) =>
        InPlan("network_reset")

C10_Witness ==
    /\ Resolved /\ RemoteDisabled
    /\ request = "cache my WiFi and DNS are broken"
    /\ Len(plan) = 2 /\ plan[2].id = "network_reset"

\* the last resolve called fn
Called(fn) == \E i \in 1..Len(strategies) : strategies[i] = fn

\* what the remote strategy returned to the last resolve
RemoteYield == _gemini_choose_action_ids(_ACTIONS, env, reply)

\* C11: for an empty, None or whitespace-only request, resolve returns an
\* empty plan and invokes neither strategy: no remote call is made and no
\* keyword rule is evaluated.
C11_BlankResolvesEmpty ==
    (Resolved /\ (requestNone \/ strip(request) = "")) =>
        /\ plan = <<>>
        /\ strategies = <<>>
        /\ ~reply.called

C11_Witness ==
    /\ Resolved /\ ~RemoteDisabled
    /\ ~requestNone /\ request = " \t\n "
    /\ plan = <<>> /\ strategies = <<>>

\* C12: whatever the remote call produced (a network failure, text that is
\* not JSON, JSON that is not an array, an array with non-string or unknown
\* entries), the remote strategy returns a list and resolve returns; when
\* the remote strategy yields no valid id, the plan is exactly the keyword
\* strategy's plan for the same text.
C12_RemoteFailureFallsBack ==
    (Resolved /\ reply.called /\ RemoteYield = <<>>) =>
        /\ Called("_fallback_choose_action_ids")
        /\ Ids(plan) = _fallback_choose_action_ids(_ACTIONS, request)

C12_Witness ==
    /\ Resolved
    /\ reply = ReplyArray(<<[isStr |-> TRUE, val |-> "unknown_id"],
                            [isStr |-> FALSE, val |-> "42"]>>)
    /\ request = "fix"
    /\ Ids(plan) = <<"health_full">>

\* C13: when the remote strategy yields at least one valid id, the plan is
\* the remote strategy's ids alone and the keyword strategy is not used;
\* when the remote strategy is not configured, no remote call is made and
\* the plan is the keyword strategy's result for the text.
C13_RemoteWinsElseKeyword ==
    Resolved =>
        /\ (RemoteYield # <<>>) =>
              /\ Ids(plan) = RemoteYield
              /\ ~Called("_fallback_choose_action_ids")
        /\ RemoteDisabled =>
              /\ ~Called("generate_content")
              /\ ~reply.called
              /\ Ids(plan) = _fallback_choose_action_ids(_ACTIONS, request)

C13_Witness ==
    /\ Resolved
    /\ request = "clean up"
    /\ reply = ReplyArray(<<[isStr |-> TRUE, val |-> "network_reset"]>>)
    /\ Ids(plan) = <<"network_reset">>

\* C20: in the keyword strategy the generic mappings apply only when no
\* group rule matched: then "clean" gives cleanup_recommended, otherwise
\* "fix" or "repair" gives health_full; when a group rule matched they add
\* nothing, so "fix my network" gives network_reset alone.
C20_GenericOnlyWhenNoRule ==
    LET text == lower(request)
        selected == Selected(text)
    IN  (Resolved /\ RemoteDisabled /\ strip(request) # "") =>
            /\ IF selected # <<>>
               THEN Ids(plan) = DedupValid(_ACTIONS, selected, {})
               ELSE IF Contains(text, "clean")
               THEN Ids(plan) = <<"cleanup_recommended">>
               ELSE IF Contains(text, "fix") \/ Contains(text, "repair")
               THEN Ids(plan) = <<"health_full">>
               ELSE plan = <<>>
            /\ (request = "fix my network") => Ids(plan) = <<"network_reset">>

C20_Witness ==
    /\ Resolved /\ RemoteDisabled
    /\ request = "fix my network"
    /\ Ids(plan) = <<"network_reset">>

----------------------------------------------------------------------------
(* Properties of the executor and of the built-in handlers.                 *)

\* the log_action events and the handler calls of the trace
Lifecycle ==
    LET Is(ev) == ev.kind \in {"START", "invoke", "SUCCESS", "ERROR"}
    IN  SelectSeq(trace, Is)

\* what the handler of step i did
StepOutcome(i) == func(plan[i], avail, behaviour)

\* C21: for each step run by the executor the handler is invoked exactly
\* once, START is logged before the invocation and exactly one of SUCCESS or
\* ERROR after it; the step's record is the handler's string when it returns
\* a non-empty string, "completed" when it returns nothing, and the failure
\* message when it raises, with ERROR logged and never SUCCESS.
C21_StepLifecycle ==
    (surface = "executor" /\ plan # <<>>) =>
        /\ Len(Lifecycle) = 3 * Len(plan)
        /\ Len(results) = Len(plan)
        /\ Len(log) = 2 * Len(plan)
        /\ \A i \in 1..Len(plan) :
              LET a == plan[i]
                  out == StepOutcome(i)
                  end == Lifecycle[3 * i]
              IN  /\ Lifecycle[3 * i - 2] = Tr("START", a.name, "")
                  /\ Lifecycle[3 * i - 1] = Tr("invoke", a.id, "")
                  /\ end.name = a.name
                  /\ log[2 * i - 1] = Event(a.name, "START", "")
                  /\ log[2 * i] = Event(a.name, end.kind, end.info)
                  /\ IF out.kind = "raise"
                     THEN /\ end.kind = "ERROR" /\ end.info = out.text
                          /\ results[i] = a.name \o ": ERROR - " \o out.text
                     ELSE /\ end.kind = "SUCCESS"
                          /\ (out.kind = "text" /\ out.text # "") =>
                                results[i] = a.name \o ": " \o out.text
                          /\ (out.kind = "none") =>
                                results[i] = a.name \o ": completed."

C21_Witness ==
    /\ surface = "executor"
    /\ Ids(plan) = <<"net_trace", "health_full", "cleanup_temp">>
    /\ outcomes = <<"none", "text", "raise">>
    /\ results[1] = "Trace Route: completed."
    /\ log[6].status = "ERROR"

----------------------------------------------------------------------------
(* Properties of the privacy tools under sequential use.                    *)

\* C22: under sequential use, whatever profiles were applied and restores
\* run, the backup entry of each key was written exactly once and equals the
\* value read for the key just before the first application that touched
\* it; no later application or restore changes or removes it.
C22_BackupWrittenOnce ==
    [][/\ \A k \in DOMAIN _BACKUP :
            k \in DOMAIN _BACKUP' /\ _BACKUP'[k] = _BACKUP[k]
       /\ DOMAIN stores' = DOMAIN _BACKUP'
       /\ DOMAIN firstRead' = DOMAIN _BACKUP'
       /\ \A k \in DOMAIN _BACKUP' :
            stores'[k] = 1 /\ _BACKUP'[k] = firstRead'[k]]_vars

C22_Witness ==
    /\ lastOp.op = "restore_privacy_defaults"
    /\ applies = MaxApplies
    /\ DOMAIN _BACKUP = StrictKeys
    /\ _BACKUP["AdvertisingInfo\\Enabled"] = 1
    /\ registry["AdvertisingInfo\\Enabled"] = 1
    /\ pristine[Webcam] = Sz /\ _BACKUP[Webcam] = NoValue

\* the value is as it was when the process started: the number it had, or
\* no value
AsAtStart(k) ==
    IF Absent(pristine[k]) THEN Absent(registry[k]) ELSE registry[k] = pristine[k]

\* C23: after restore_privacy_defaults, when no registry write has failed,
\* every backed-up value is as it was before the first application (its
\* original number, or deleted if it did not exist); a restore with an empty
\* backup changes nothing and reports that there is nothing to restore.
C23_RestoreRoundTrip ==
    (lastOp.op = "restore_privacy_defaults") =>
        /\ writesOk => \A k \in DOMAIN _BACKUP : AsAtStart(k)
        /\ (_BACKUP = NoBackup) =>
              /\ registry = pristine
              /\ lastOp.msg = "No previous privacy settings to restore."

C23_Witness ==
    /\ lastOp.op = "restore_privacy_defaults"
    /\ writesOk
    /\ applies = MaxApplies
    /\ DOMAIN _BACKUP = SettingKeys
    /\ \E k \in SettingKeys : pristine[k] = 1 /\ registry[k] = 1 /\ _BACKUP[k] = 1
    /\ \E k \in SettingKeys : pristine[k] = NoKey /\ registry[k] = NoValue

----------------------------------------------------------------------------
(* The bundled plugin.                                                       *)

\* C24: after startup over the repository's plugins package (the bundled
\* example_cleanup plugin), the catalog holds the action deep_cleanup in the
\* group cleanup.
C24_DeepCleanupRegistered ==
    (phase = "ready" /\ modules = RepositoryPlugins) =>
        \E i \in 1..Len(_ACTIONS) :
            _ACTIONS[i].id = "deep_cleanup" /\ _ACTIONS[i].group = "cleanup"

----------------------------------------------------------------------------
(* Tools that are not there.                                                 *)

\* the handlers _register_builtin_actions defines
BuiltinHandlers ==
    {h.func : h \in SingleToolHandlers} \cup {"_cleanup_recommended", "_health_full"}

\* the ids in the registry whose handler is a built-in one
BuiltinsRegistered ==
    {_ACTIONS[i].id : i \in {j \in 1..Len(_ACTIONS) : _ACTIONS[j].func \in BuiltinHandlers}}

\* step i of the plan ran a single-tool built-in whose tool is unavailable
Unavailable(i) ==
    \E h \in SingleToolHandlers : plan[i].func = h.func /\ h.tool \notin avail

\* every step whose tool is unavailable failed with the handler's "not
\* available" error, logged as ERROR, and every step of the plan was run
UnavailableReported ==
    (surface = "executor" /\ plan # <<>>) =>
        /\ Len(results) = Len(plan)
        /\ Len(log) = 2 * Len(plan)
        /\ \A i \in 1..Len(plan) :
              /\ log[2 * i - 1].status = "START"
              /\ Unavailable(i) =>
                    LET h == CHOOSE g \in SingleToolHandlers : g.func = plan[i].func
                    IN  /\ Contains(h.missing, "not available")
                        /\ log[2 * i] = Event(plan[i].name, "ERROR", h.missing)
                        /\ results[i] = plan[i].name \o ": ERROR - " \o h.missing
                        /\ \A k \in 1..Len(trace) : trace[k].kind = "tool" =>
                              trace[k].name # h.tool

\* C25 (as the code has it): whatever tool module failed to import or lacks
\* a function, startup registers all 16 built-in action ids, and a
\* single-tool built-in whose tool is unavailable fails with a "not
\* available" error recorded as ERROR for its step, the rest of the plan
\* still being run.
C25_UnavailableTools ==
    /\ Cardinality(BuiltinsRegistered) = 16
    /\ UnavailableReported

\* C25 as stated: the same with 15 built-in action ids.
C25_FifteenBuiltins ==
    /\ Cardinality(BuiltinsRegistered) = 15
    /\ UnavailableReported

C25_Witness ==
    /\ surface = "executor"
    /\ "run_sfc_scan" \notin avail /\ "schedule_chkdsk" \in avail
    /\ Ids(plan) = <<"health_sfc", "health_chkdsk">>
    /\ log[2].status = "ERROR" /\ log[2].info = "SFC scan tool is not available."
    /\ log[4].status = "SUCCESS"

----------------------------------------------------------------------------
(* The aggregates.                                                           *)

\* where in the trace the steps of the plan start
RECURSIVE StartsFrom(_)
StartsFrom(k) ==
    IF k > Len(trace) THEN <<>>
    ELSE (IF trace[k].kind = "START" THEN <<k>> ELSE <<>>) \o StartsFrom(k + 1)

\* what the handler of step i did: the trace between its invocation and the
\* SUCCESS or ERROR that ends the step
StepEvents(i) ==
    LET starts == StartsFrom(1)
        last == IF i < Len(starts) THEN starts[i + 1] - 1 ELSE Len(trace)
    IN  SubSeq(trace, starts[i] + 2, last - 1)

SubTools(a) ==
    IF a.func = "_cleanup_recommended" THEN CleanupRecommendedTools ELSE HealthFullTools

ClosingSentence(a) ==
    IF a.func = "_cleanup_recommended" THEN "Cleanup completed."
    ELSE "Health checks completed."

\* C26: cleanup_recommended and health_full never raise: each available
\* sub-tool is attempted exactly once in the fixed order, an unavailable one
\* is skipped, a failing one is recorded as "<tool> failed: <message>" and
\* the next is still attempted; the handler returns a non-empty string and
\* its step is logged SUCCESS, also when every sub-tool failed.
C26_AggregatesNeverRaise ==
    (surface = "executor") =>
        \A i \in 1..Len(plan) :
            (plan[i].func \in {"_cleanup_recommended", "_health_full"}) =>
                LET a == plan[i]
                    IsTool(ev) == ev.kind = "tool"
                    IsAvailable(t) == t \in avail
                    calls == SelectSeq(StepEvents(i), IsTool)
                    line(ev) == IF ev.info = "raise"
                                THEN ev.name \o " failed: " \o ToolCall(ev.name, behaviour).text
                                ELSE ToolCall(ev.name, behaviour).text
                    lines == [k \in 1..Len(calls) |-> line(calls[k])]
                    text == IF lines = <<>> THEN ClosingSentence(a) ELSE JoinLines(lines)
                IN  /\ [k \in 1..Len(calls) |-> calls[k].name]
                          = SelectSeq(SubTools(a), IsAvailable)
                    /\ outcomes[i] = "text"
                    /\ text # ""
                    /\ results[i] = a.name \o ": " \o text
                    /\ log[2 * i] = Event(a.name, "SUCCESS", "")

C26_Witness ==
    /\ surface = "executor"
    /\ Ids(plan) = <<"net_trace", "health_full", "cleanup_temp">>
    /\ avail = AllTools
    /\ behaviour.raises = {"run_sfc_scan", "run_dism_health_scan"}
    /\ log[4].status = "SUCCESS"
    /\ results[2] = "Full Health Check: run_sfc_scan failed: " \o ToolError("run_sfc_scan")
                    \o "\nrun_dism_health_scan failed: " \o ToolError("run_dism_health_scan")

----------------------------------------------------------------------------
(* Properties of the keyword strategy's plan.                                *)

\* every keyword of the rules of _fallback_choose_action_ids
RuleKeywords ==
    {"cleanup", "clean up", "clean my pc", "temp", "cache", "junk", "space",
     "prefetch", "windows update", "temporary", "sfc", "system file checker",
     "dism", "component store", "chkdsk", "disk check", "health", "corrupt",
     "integrity", "fix system files", "no internet", "network", "wifi",
     "ethernet", "dns", "winsock", "reset network", "task manager",
     "device manager", "services", "system restore", "restore point",
     "privacy", "strict", "default", "telemetry", "tracking", "clean", "fix",
     "repair"}

\* the keywords a request has once lowercased
KeywordsIn(t) == UNION {{k \in RuleKeywords : Contains(x, k)} : x \in {lower(t)}}

\* what the rules select for each request, before the catalog filter
SelectedFor(t) ==
    CHOOSE s \in {IF r # <<>> THEN r ELSE FallbackGeneric(x) :
                     <<x, r>> \in {<<y, Selected(y)>> : y \in {lower(t)}}} : TRUE

\* the keywords of a request with what the rules select for it, over all
\* requests: requests with the same keywords in different orders share the
\* first component
ByKeywords == {<<KeywordsIn(t), SelectedFor(t)>> : t \in Requests}

\* the place of an id in the order of the rules
PlanRank(aid) ==
    CASE aid \in {"cleanup_recommended", "cleanup_prefetch",
                  "cleanup_windows_update_cache", "cleanup_temp"} -> 1
      [] aid = "health_sfc" -> 2
      [] aid = "health_dism" -> 3
      [] aid = "health_chkdsk" -> 4
      [] aid = "health_full" -> 5
      [] aid = "network_reset" -> 6
      [] aid = "tools_task_manager" -> 7
      [] aid = "tools_device_manager" -> 8
      [] aid = "tools_services" -> 9
      [] aid = "tools_system_restore" -> 10
      [] aid \in {"privacy_strict", "privacy_restore_defaults",
                  "privacy_recommended"} -> 11
      [] OTHER -> 0

\* C27: the order of a keyword-strategy plan is the order of the rules:
\* the cleanup action, then health (sfc, dism, chkdsk, full), then
\* network_reset, then the tools (task manager, device manager, services,
\* system restore), then the privacy action; every request with the same
\* keywords, in whatever order, gets the same plan.
C27_PlanInRuleOrder ==
    (Resolved /\ RemoteDisabled /\ strip(request) # "") =>
        /\ \A i \in 1..Len(plan) : PlanRank(plan[i].id) > 0
        /\ \A i \in 1..(Len(plan) - 1) :
              PlanRank(plan[i].id) < PlanRank(plan[i + 1].id)
        /\ LET keywords == KeywordsIn(request)
           IN  \A p \in ByKeywords :
                  (p[1] = keywords) => DedupValid(_ACTIONS, p[2], {}) = Ids(plan)

C27_Witness ==
    /\ Resolved /\ RemoteDisabled
    /\ request = "restore point, device manager, task manager chkdsk and dism"
    /\ KeywordsIn("chkdsk and dism restore point, device manager, task manager")
          = KeywordsIn(request)
    /\ Ids(plan) = <<"health_dism", "health_chkdsk", "tools_task_manager",
                     "tools_device_manager", "tools_system_restore">>

\* C28: the keyword strategy's output has no duplicate id and only ids of
\* the catalog, at most one id of the cleanup group and at most one of the
\* privacy group, and is a function of the text and the catalog.
C28_KeywordPlanWellFormed ==
    (Resolved /\ RemoteDisabled /\ strip(request) # "") =>
        LET out == _fallback_choose_action_ids(_ACTIONS, request)
            InGroup(g) == {i \in 1..Len(out) : get_action_by_id(_ACTIONS, out[i]).group = g}
        IN  /\ \A i, j \in 1..Len(out) : out[i] = out[j] => i = j
            /\ \A i \in 1..Len(out) : HasId(_ACTIONS, out[i])
            /\ Cardinality(InGroup("cleanup")) <= 1
            /\ Cardinality(InGroup("privacy")) <= 1
            /\ Ids(plan) = out

C28_Witness ==
    /\ Resolved /\ RemoteDisabled
    /\ request = "my temp files and cache privacy defaults"
    /\ Ids(plan) = <<"cleanup_recommended", "privacy_restore_defaults">>

----------------------------------------------------------------------------
(* The Windows Update services.                                              *)

\* C29: in every execution of cleanup_windows_update_cache in which stopping
\* the services was attempted, a start of each of wuauserv, bits and cryptsvc
\* is attempted before the operation returns or fails, also when clearing
\* SoftwareDistribution or catroot2 fails.
C29_ServicesRestarted ==
    (surface = "executor") =>
        \A i \in 1..Len(plan) :
            LET seg == StepEvents(i)
            IN  \A k \in 1..Len(seg) :
                    (seg[k].kind = "sc stop") =>
                        \A n \in 1..Len(Services) :
                            \E m \in (k + 1)..Len(seg) :
                                seg[m].kind = "sc start" /\ seg[m].name = Services[n]

----------------------------------------------------------------------------
(* Properties of the health monitor.                                         *)

Threshold(type) ==
    IF type = "cpu" THEN CPU_WARN ELSE IF type = "ram" THEN RAM_WARN ELSE DISK_WARN

\* at most one notification of each type per turn, each for a value at or
\* above its threshold, none in a turn whose reading failed, and the loop
\* goes on after such a turn
MonitorChecksSound ==
    /\ \A i, j \in 1..Len(issued) :
          (issued[i].type = issued[j].type /\ issued[i].check = issued[j].check) => i = j
    /\ \A i \in 1..Len(issued) : issued[i].value >= Threshold(issued[i].type)
    /\ ~reading.ok => \A i \in 1..Len(issued) : issued[i].check # checks
    /\ (~reading.ok /\ checks < MaxChecks) => ENABLED MonitorCheck

\* C30: two notifications of the same type are never issued less than 300
\* seconds apart; at most one notification of each type is issued per check;
\* a notification is issued only for a value at or above its threshold (CPU
\* 90, RAM 90, worst disk 95); a failure to read the system info skips that
\* check and the loop goes on.
C30_NotificationsSpaced ==
    /\ \A i, j \in 1..Len(issued) :
          (i < j /\ issued[i].type = issued[j].type) =>
              issued[j].at - issued[i].at >= MIN_NOTIFY_INTERVAL
    /\ MonitorChecksSound

====
